---- MODULE Spec2Model ----
(***************************************************************************)
(* BookWriter: the encrypted book container (src/core/encryption.py),     *)
(* the Book file operations built on it and the Book dictionary conversion *)
(* (src/core/book.py), opening a file from the main window                 *)
(* (src/ui/main_window.py) and the character count                         *)
(* (src/utils/markdown_processor.py).                                      *)
(*                                                                         *)
(* Further: the chapter list (src/core/book.py, src/ui/navigator.py), the  *)
(* recent files and the backups (src/core/file_manager.py) and the open    *)
(* books of the main window (src/ui/main_window.py).                       *)
(*                                                                         *)
(* Specifications: Spec (engine calls, save, password change), SpecVault   *)
(* (files from any writer: decrypt, verify, load, open), SpecSerializer    *)
(* (to_dict / from_dict), SpecWordCount (get_word_count), SpecChapters     *)
(* (add, remove, move), SpecRecent (recent files), SpecBackups             *)
(* (create_backup), SpecWindow (open_books).                               *)
(*                                                                         *)
(* Bytes are naturals 0..255, byte strings are sequences of bytes, text    *)
(* is a sequence of Unicode code points.  A book_data dictionary is a      *)
(* sequence of <<key, value>> pairs in insertion order (Python dicts keep  *)
(* it, json.dumps writes it, json.loads restores it); keys and values are  *)
(* text.                                                                   *)
(*                                                                         *)
(* Library idealisations (stated where they are used):                     *)
(*   - os.urandom is an ideal source: no block it returns repeats;         *)
(*   - PBKDF2 is injective in (password, salt);                            *)
(*   - AES-GCM is unforgeable: a (key, nonce, ciphertext||tag) triple      *)
(*     verifies exactly when AESGCM.encrypt produced it;                   *)
(*   - zlib streams are written with one stored block and an Adler-32.     *)
(***************************************************************************)
EXTENDS Integers, Sequences, FiniteSets, TLC

VARIABLES
    seed,     \* the entropy os.urandom was seeded with
    rng,      \* number of blocks os.urandom has returned so far
    sealed,   \* AES-GCM: the (key, nonce, data) triples AESGCM.encrypt produced
    encs,     \* history of the successful encrypt_book_data calls
    last,     \* the last call made and its outcome
    disk,     \* the file system: path -> file bytes, or NoFile
    book,     \* the Book object: book_data (to_dict()), file_path, is_encrypted
    ser,      \* Book.to_dict / Book.from_dict: the Book, its dictionary, the result
    wc,       \* MarkdownProcessor.get_word_count: the text and the counts
    nav,      \* Book.chapters under the navigator's chapter operations
    recent,   \* FileManager: the recent-files list and the files that exist
    backups,  \* FileManager: the backup directory
    win       \* MainWindow: open_books, the current book, the files on disk

vars == <<seed, rng, sealed, encs, last, disk, book, ser, wc,
         nav, recent, backups, win>>

(* The variables of the dictionary conversion and of the word count; the   *)
(* file operations leave them alone.                                       *)
pure == <<ser, wc>>

(* The variables of the chapter list, the file manager and the main window. *)
desk == <<nav, recent, backups, win>>

(* The variables of the file operations.                                   *)
files == <<seed, rng, sealed, encs, last, disk, book>>

(* The value of a variable that takes no part in a specification.          *)
Unused == [phase |-> "unused"]

(* The chapter list, the file manager and the main window take no part.    *)
DeskUnused == nav = Unused /\ recent = Unused /\ backups = Unused /\ win = Unused

-----------------------------------------------------------------------------
(* Program constants (EncryptionEngine class attributes).                  *)

MAGIC_NUMBER == <<66, 79, 79, 75>>      \* b"BOOK"
VERSION == 1
SALT_SIZE == 16
IV_SIZE == 12
KEY_SIZE == 32
TAG_SIZE == 16

(* Bounds of the model.                                                    *)
MaxEncodes == 2

-----------------------------------------------------------------------------
(* Error kinds.  The code raises ValueError with these messages; the       *)
(* names are the kinds the messages stand for.                             *)
(*   EmptyPassword            "Password cannot be empty" /                 *)
(*                            "New password cannot be empty"               *)
(*   EmptyData                "Book data cannot be empty"                  *)
(*   TooSmall                 "Invalid file format: file too small"        *)
(*   BadMagic                 "Invalid file format: wrong magic number"    *)
(*   UnsupportedVersion       "Unsupported file version: {version}"        *)
(*   InvalidPasswordOrCorrupt "Invalid password or corrupted file"         *)
(*   CorruptData              "File corruption detected: {e}"              *)
(*   UnicodeDecodeError       raised by bytes.decode, not caught           *)
(*   NotSaved                 "Book must be saved to file before ..."      *)
NoError == "ok"

(* A missing file and an absent password (Python None): values that are   *)
(* no byte string and no text.                                             *)
NoFile == <<-1>>
NoPassword == <<-1>>
NoPath == "None"

-----------------------------------------------------------------------------
(* Sequence helpers.                                                       *)

RECURSIVE SumBytes(_)
SumBytes(s) ==
    IF s = <<>> THEN 0 ELSE Head(s) + SumBytes(Tail(s))

(* Python slice b[lo:hi] (0-based, hi exclusive, clipped to the length).   *)
Slice(b, lo, hi) ==
    SubSeq(b, lo + 1, IF hi < Len(b) THEN hi ELSE Len(b))

(* int.to_bytes(4, 'little') and int.from_bytes(.., 'little').             *)
ToBytesLE4(n) ==
    <<n % 256, (n \div 256) % 256, (n \div 65536) % 256, (n \div 16777216) % 256>>

RECURSIVE FromBytesLE(_)
FromBytesLE(b) ==
    IF b = <<>> THEN 0 ELSE Head(b) + 256 * FromBytesLE(Tail(b))

-----------------------------------------------------------------------------
(* str.encode('utf-8') and bytes.decode('utf-8'), code points below 65536. *)

Utf8Char(c) ==
    IF c < 128 THEN <<c>>
    ELSE IF c < 2048 THEN <<192 + (c \div 64), 128 + (c % 64)>>
    ELSE <<224 + (c \div 4096), 128 + ((c \div 64) % 64), 128 + (c % 64)>>

RECURSIVE Utf8Encode(_)
Utf8Encode(text) ==
    IF text = <<>> THEN <<>> ELSE Utf8Char(Head(text)) \o Utf8Encode(Tail(text))

IsCont(b) == b >= 128 /\ b < 192

Utf8Fail == [ok |-> FALSE, val |-> <<>>]

RECURSIVE Utf8Scan(_, _, _)
Utf8Scan(b, i, acc) ==
    IF i > Len(b) THEN [ok |-> TRUE, val |-> acc]
    ELSE IF b[i] < 128 THEN Utf8Scan(b, i + 1, Append(acc, b[i]))
    ELSE IF b[i] >= 194 /\ b[i] < 224
    THEN IF i + 1 <= Len(b) /\ IsCont(b[i + 1])
         THEN Utf8Scan(b, i + 2, Append(acc, (b[i] - 192) * 64 + (b[i + 1] - 128)))
         ELSE Utf8Fail
    ELSE IF b[i] >= 224 /\ b[i] < 240
    THEN IF i + 2 <= Len(b) /\ IsCont(b[i + 1]) /\ IsCont(b[i + 2])
         THEN LET cp == (b[i] - 224) * 4096 + (b[i + 1] - 128) * 64 + (b[i + 2] - 128)
              IN  IF cp < 2048 \/ (cp >= 55296 /\ cp < 57344)
                  THEN Utf8Fail
                  ELSE Utf8Scan(b, i + 3, Append(acc, cp))
         ELSE Utf8Fail
    ELSE Utf8Fail

Utf8Decode(b) == Utf8Scan(b, 1, <<>>)

-----------------------------------------------------------------------------
(* json.dumps(book_data, ensure_ascii=False, indent=2) for a dictionary    *)
(* of text values, and json.loads for the same grammar.                    *)
(* Characters: 34 '"', 92 '\', 10 newline, 110 'n', 123 '{', 125 '}',      *)
(* 58 ':', 44 ',', 32 space.                                               *)

RECURSIVE JsonEscape(_)
JsonEscape(s) ==
    IF s = <<>> THEN <<>>
    ELSE (IF Head(s) = 34 THEN <<92, 34>>
          ELSE IF Head(s) = 92 THEN <<92, 92>>
          ELSE IF Head(s) = 10 THEN <<92, 110>>
          ELSE <<Head(s)>>) \o JsonEscape(Tail(s))

JsonQuote(s) == <<34>> \o JsonEscape(s) \o <<34>>

RECURSIVE JsonItems(_, _)
JsonItems(d, i) ==
    IF i > Len(d) THEN <<>>
    ELSE <<10, 32, 32>> \o JsonQuote(d[i][1]) \o <<58, 32>> \o JsonQuote(d[i][2])
         \o (IF i < Len(d) THEN <<44>> ELSE <<>>) \o JsonItems(d, i + 1)

JsonDumps(d) ==
    IF d = <<>> THEN <<123, 125>> ELSE <<123>> \o JsonItems(d, 1) \o <<10, 125>>

JsonFail == [ok |-> FALSE, val |-> <<>>, next |-> 0]

IsWs(c) == c \in {32, 10, 13, 9}

RECURSIVE SkipWs(_, _)
SkipWs(t, i) ==
    IF i <= Len(t) /\ IsWs(t[i]) THEN SkipWs(t, i + 1) ELSE i

RECURSIVE ScanString(_, _, _)
ScanString(t, i, acc) ==
    IF i > Len(t) THEN JsonFail
    ELSE IF t[i] = 34 THEN [ok |-> TRUE, val |-> acc, next |-> i + 1]
    ELSE IF t[i] = 92
    THEN IF i + 1 > Len(t) THEN JsonFail
         ELSE IF t[i + 1] = 34 THEN ScanString(t, i + 2, Append(acc, 34))
         ELSE IF t[i + 1] = 92 THEN ScanString(t, i + 2, Append(acc, 92))
         ELSE IF t[i + 1] = 110 THEN ScanString(t, i + 2, Append(acc, 10))
         ELSE JsonFail
    ELSE IF t[i] < 32 THEN JsonFail
    ELSE ScanString(t, i + 1, Append(acc, t[i]))

ParseString(t, i) ==
    IF i <= Len(t) /\ t[i] = 34 THEN ScanString(t, i + 1, <<>>) ELSE JsonFail

(* d[k] = v on a dictionary: a key already present keeps its position.     *)
DictPut(d, k, v) ==
    IF \E i \in 1..Len(d) : d[i][1] = k
    THEN [i \in 1..Len(d) |-> IF d[i][1] = k THEN <<k, v>> ELSE d[i]]
    ELSE Append(d, <<k, v>>)

RECURSIVE ParseMembers(_, _, _)
ParseMembers(t, i, acc) ==
    LET k == ParseString(t, i)
        j == SkipWs(t, k.next)
        v == ParseString(t, SkipWs(t, j + 1))
        m == SkipWs(t, v.next)
    IN  IF ~k.ok THEN JsonFail
        ELSE IF ~(j <= Len(t) /\ t[j] = 58) THEN JsonFail
        ELSE IF ~v.ok THEN JsonFail
        ELSE IF m > Len(t) THEN JsonFail
        ELSE IF t[m] = 44
        THEN ParseMembers(t, SkipWs(t, m + 1), DictPut(acc, k.val, v.val))
        ELSE IF t[m] = 125
        THEN [ok |-> TRUE, val |-> DictPut(acc, k.val, v.val), next |-> m + 1]
        ELSE JsonFail

JsonString(t, s) ==
    IF s.ok /\ SkipWs(t, s.next) > Len(t)
    THEN [ok |-> TRUE, val |-> s.val, next |-> s.next, kind |-> "str"]
    ELSE JsonFail

JsonObject(t, r) ==
    IF ~r.ok THEN JsonFail
    ELSE IF SkipWs(t, r.next) <= Len(t) THEN JsonFail
    ELSE [ok |-> TRUE, val |-> r.val, next |-> r.next, kind |-> "dict"]

(* json.loads: a top-level object of string members gives a dict, a        *)
(* top-level string gives a str; `kind` names the Python type returned.    *)
JsonLoads(t) ==
    LET i == SkipWs(t, 1)
        j == SkipWs(t, i + 1)
        r == IF j <= Len(t) /\ t[j] = 125
             THEN [ok |-> TRUE, val |-> <<>>, next |-> j + 1]
             ELSE ParseMembers(t, j, <<>>)
    IN  IF i <= Len(t) /\ t[i] = 34
        THEN JsonString(t, ParseString(t, i))
        ELSE IF ~(i <= Len(t) /\ t[i] = 123) THEN JsonFail
        ELSE JsonObject(t, r)

-----------------------------------------------------------------------------
(* zlib.compress / zlib.decompress.  The stream is the 2-byte zlib header, *)
(* one final stored deflate block (LEN, NLEN, the data) and the Adler-32   *)
(* of the data, big-endian.                                                *)

RECURSIVE AdlerAB(_, _, _)
AdlerAB(data, a, b) ==
    IF data = <<>> THEN <<a, b>>
    ELSE AdlerAB(Tail(data), (a + Head(data)) % 65521,
                 (b + ((a + Head(data)) % 65521)) % 65521)

Adler32(data) ==
    LET ab == AdlerAB(data, 1, 0)
    IN  <<ab[2] \div 256, ab[2] % 256, ab[1] \div 256, ab[1] % 256>>

ZlibCompress(data) ==
    <<120, 156, 1, Len(data) % 256, Len(data) \div 256,
      255 - (Len(data) % 256), 255 - (Len(data) \div 256)>>
    \o data \o Adler32(data)

ZlibFail == [ok |-> FALSE, val |-> <<>>]

ZlibDecompress(z) ==
    IF Len(z) < 11 THEN ZlibFail
    ELSE IF z[1] % 16 # 8 \/ (z[1] * 256 + z[2]) % 31 # 0 \/ (z[2] \div 32) % 2 # 0
    THEN ZlibFail
    ELSE IF z[3] # 1 THEN ZlibFail
    ELSE IF z[6] # 255 - z[4] \/ z[7] # 255 - z[5] THEN ZlibFail
    ELSE IF Len(z) # 11 + z[4] + 256 * z[5] THEN ZlibFail
    ELSE LET data == SubSeq(z, 8, Len(z) - 4)
         IN  IF SubSeq(z, Len(z) - 3, Len(z)) # Adler32(data)
             THEN ZlibFail
             ELSE [ok |-> TRUE, val |-> data]

-----------------------------------------------------------------------------
(* os.urandom(size): block number n of the source seeded with `seed`.      *)
(* Ideal source: blocks with different numbers differ.                     *)

Urandom(n, size) ==
    [i \in 1..size |-> (seed * 101 + n * 7 + i) % 256]

(* salt = os.urandom(self.SALT_SIZE); iv = os.urandom(self.IV_SIZE): the   *)
(* n-th and (n+1)-th block drawn.                                          *)
NewSalt(n) == Urandom(n, SALT_SIZE)

NewIvStatic(n) == [i \in 1..IV_SIZE |-> 0]

NewIv(n) == Urandom(n + 1, IV_SIZE)

-----------------------------------------------------------------------------
(* _derive_key: PBKDF2-HMAC-SHA256(password.encode('utf-8'), salt),        *)
(* KEY_SIZE bytes.  Ideal: injective in (password, salt), for passwords of *)
(* at most 15 bytes: the salt, the password length, the password bytes.    *)

DeriveKeyIgnoringPassword(password, salt) ==
    [i \in 1..KEY_SIZE |-> IF i <= Len(salt) THEN salt[i] ELSE 0]

DeriveKey(password, salt) ==
    LET pw == Utf8Encode(password)
    IN  [i \in 1..KEY_SIZE |->
            IF i <= Len(salt) THEN salt[i]
            ELSE IF i = Len(salt) + 1 THEN Len(pw)
            ELSE IF i - Len(salt) - 1 <= Len(pw) THEN pw[i - Len(salt) - 1]
            ELSE 0]

-----------------------------------------------------------------------------
(* AESGCM(key).encrypt(iv, data, None) and .decrypt(iv, data, None).       *)
(* The ciphertext is the plaintext masked bytewise by a keystream of       *)
(* (key, iv); TAG_SIZE tag bytes follow.  decrypt raises InvalidTag unless *)
(* the (key, iv, data) triple is one that encrypt produced (`sealed`).     *)

KeyStream(key, iv, i) ==
    (key[((i - 1) % Len(key)) + 1] + iv[((i - 1) % Len(iv)) + 1] + i) % 256

GcmTag(key, iv, ct) ==
    [j \in 1..TAG_SIZE |->
        (key[j] + key[j + 16] + 3 * iv[((j - 1) % Len(iv)) + 1]
         + SumBytes(ct) + Len(ct)) % 256]

AESGCM_encrypt(key, iv, data) ==
    LET ct == [i \in 1..Len(data) |-> (data[i] + KeyStream(key, iv, i)) % 256]
    IN  ct \o GcmTag(key, iv, ct)

GcmOpen(key, iv, data) ==
    LET n == Len(data) - TAG_SIZE
    IN  [i \in 1..n |-> (data[i] + 256 - KeyStream(key, iv, i)) % 256]

AESGCM_decrypt_unauthenticated(key, iv, data) ==
    IF Len(data) < TAG_SIZE
    THEN [ok |-> FALSE, val |-> <<>>]
    ELSE [ok |-> TRUE, val |-> GcmOpen(key, iv, data)]

AESGCM_decrypt(key, iv, data) ==
    IF Len(data) < TAG_SIZE \/ <<key, iv, data>> \notin sealed
    THEN [ok |-> FALSE, val |-> <<>>]
    ELSE [ok |-> TRUE, val |-> GcmOpen(key, iv, data)]

-----------------------------------------------------------------------------
(* EncryptionEngine.encrypt_book_data(book_data, password); n is the       *)
(* number of blocks os.urandom has returned before the call.               *)

BuildHeaderIvFirst(salt, iv) ==
    MAGIC_NUMBER \o ToBytesLE4(VERSION) \o iv \o salt

BuildHeader(salt, iv) ==
    MAGIC_NUMBER \o ToBytesLE4(VERSION) \o salt \o iv

(* json.dumps(...) then zlib.compress(json_data.encode('utf-8')).          *)
SerializeBookDataLatin1(book_data) ==
    ZlibCompress(JsonDumps(book_data))

SerializeBookData(book_data) ==
    ZlibCompress(Utf8Encode(JsonDumps(book_data)))

EncFail(kind) ==
    [err |-> kind, doc |-> <<>>, out |-> <<>>, salt |-> <<>>, iv |-> <<>>,
     key |-> <<>>, data |-> <<>>, draws |-> 0, steps |-> <<>>]

EncryptBookData(book_data, password, n) ==
    IF password = <<>> THEN EncFail("EmptyPassword")
    ELSE IF book_data = <<>> THEN EncFail("EmptyData")
    ELSE LET salt == NewSalt(n)
             iv == NewIv(n)
             key == DeriveKey(password, salt)
             compressed_data == SerializeBookData(book_data)
             encrypted_data == AESGCM_encrypt(key, iv, compressed_data)
             header == BuildHeader(salt, iv)
         IN  [err |-> NoError, doc |-> book_data, out |-> header \o encrypted_data,
              salt |-> salt, iv |-> iv, key |-> key, data |-> encrypted_data,
              draws |-> 2, steps |-> <<"derive_key", "encrypt">>]

-----------------------------------------------------------------------------
(* EncryptionEngine.decrypt_book_data(file_data, password).  `steps` lists *)
(* the cryptographic and decoding work done, in order; salt and iv are the *)
(* header fields as parsed.                                                *)

ParseVersionFirstByte(file_data) == file_data[5]

ParseVersion(file_data) == FromBytesLE(Slice(file_data, 4, 8))

DecFail(kind, steps, salt, iv) ==
    [err |-> kind, doc |-> <<>>, steps |-> steps, salt |-> salt, iv |-> iv,
     kind |-> "none"]

DecryptPayloadDecompressFirst(file_data, password) ==
    LET salt == Slice(file_data, 8, 24)
        iv == Slice(file_data, 24, 36)
        encrypted_data == Slice(file_data, 36, Len(file_data))
        key == DeriveKey(password, salt)
        raw == ZlibDecompress(GcmOpen(key, iv, encrypted_data))
        json_data == Utf8Decode(raw.val)
    IN  IF ~raw.ok
        THEN DecFail("CorruptData", <<"derive_key", "decrypt", "decompress">>, salt, iv)
        ELSE IF ~AESGCM_decrypt(key, iv, encrypted_data).ok
        THEN DecFail("InvalidPasswordOrCorrupt",
                     <<"derive_key", "decrypt", "decompress">>, salt, iv)
        ELSE IF ~json_data.ok
        THEN DecFail("UnicodeDecodeError",
                     <<"derive_key", "decrypt", "decompress", "decode">>, salt, iv)
        ELSE IF ~JsonLoads(json_data.val).ok
        THEN DecFail("CorruptData",
                     <<"derive_key", "decrypt", "decompress", "decode", "loads">>,
                     salt, iv)
        ELSE [err |-> NoError, doc |-> JsonLoads(json_data.val).val,
              steps |-> <<"derive_key", "decrypt", "decompress", "decode", "loads">>,
              salt |-> salt, iv |-> iv, kind |-> JsonLoads(json_data.val).kind]

DecryptPayload(file_data, password) ==
    LET salt == Slice(file_data, 8, 24)
        iv == Slice(file_data, 24, 36)
        encrypted_data == Slice(file_data, 36, Len(file_data))
        key == DeriveKey(password, salt)
        compressed_data == AESGCM_decrypt(key, iv, encrypted_data)
        raw == ZlibDecompress(compressed_data.val)
        json_data == Utf8Decode(raw.val)
        book_data == JsonLoads(json_data.val)
    IN  IF ~compressed_data.ok
        THEN DecFail("InvalidPasswordOrCorrupt", <<"derive_key", "decrypt">>, salt, iv)
        ELSE IF ~raw.ok
        THEN DecFail("CorruptData", <<"derive_key", "decrypt", "decompress">>, salt, iv)
        ELSE IF ~json_data.ok
        THEN DecFail("UnicodeDecodeError",
                     <<"derive_key", "decrypt", "decompress", "decode">>, salt, iv)
        ELSE IF ~book_data.ok
        THEN DecFail("CorruptData",
                     <<"derive_key", "decrypt", "decompress", "decode", "loads">>,
                     salt, iv)
        ELSE [err |-> NoError, doc |-> book_data.val,
              steps |-> <<"derive_key", "decrypt", "decompress", "decode", "loads">>,
              salt |-> salt, iv |-> iv, kind |-> book_data.kind]

DecryptBookDataMagicFirst(file_data, password) ==
    IF Slice(file_data, 0, 4) # MAGIC_NUMBER
    THEN DecFail("BadMagic", <<>>, <<>>, <<>>)
    ELSE IF Len(file_data) < 32
    THEN DecFail("TooSmall", <<>>, <<>>, <<>>)
    ELSE IF ParseVersion(file_data) # VERSION
    THEN DecFail("UnsupportedVersion", <<>>, <<>>, <<>>)
    ELSE DecryptPayload(file_data, password)

DecryptBookData(file_data, password) ==
    IF Len(file_data) < 32
    THEN DecFail("TooSmall", <<>>, <<>>, <<>>)
    ELSE IF Slice(file_data, 0, 4) # MAGIC_NUMBER
    THEN DecFail("BadMagic", <<>>, <<>>, <<>>)
    ELSE IF ParseVersion(file_data) # VERSION
    THEN DecFail("UnsupportedVersion", <<>>, <<>>, <<>>)
    ELSE DecryptPayload(file_data, password)

-----------------------------------------------------------------------------
(* EncryptionEngine.change_password(file_data, old_password, new_password) *)

Reencrypted(dec, enc) ==
    [enc EXCEPT !.steps = dec.steps \o enc.steps]

ChangePasswordKeepsOld(file_data, old_password, new_password, n) ==
    IF new_password = <<>> THEN EncFail("EmptyPassword")
    ELSE LET book_data == DecryptBookData(file_data, old_password)
         IN  IF book_data.err # NoError
             THEN [EncFail(book_data.err) EXCEPT !.steps = book_data.steps]
             ELSE Reencrypted(book_data, EncryptBookData(book_data.doc, old_password, n))

ChangePasswordDecodesFirst(file_data, old_password, new_password, n) ==
    LET book_data == DecryptBookData(file_data, old_password)
    IN  IF book_data.err # NoError
        THEN [EncFail(book_data.err) EXCEPT !.steps = book_data.steps]
        ELSE Reencrypted(book_data, EncryptBookData(book_data.doc, new_password, n))

ChangePasswordReusesHeader(file_data, old_password, new_password, n) ==
    IF new_password = <<>> THEN EncFail("EmptyPassword")
    ELSE LET book_data == DecryptBookData(file_data, old_password)
             key == DeriveKey(new_password, book_data.salt)
             data == AESGCM_encrypt(key, book_data.iv, SerializeBookData(book_data.doc))
         IN  IF book_data.err # NoError
             THEN [EncFail(book_data.err) EXCEPT !.steps = book_data.steps]
             ELSE IF book_data.doc = <<>>
             THEN [EncFail("EmptyData") EXCEPT !.steps = book_data.steps]
             ELSE [err |-> NoError, doc |-> book_data.doc,
                   out |-> BuildHeader(book_data.salt, book_data.iv) \o data,
                   salt |-> book_data.salt, iv |-> book_data.iv, key |-> key,
                   data |-> data, draws |-> 2,
                   steps |-> book_data.steps \o <<"derive_key", "encrypt">>]

ChangePasswordChecksSizeFirst(file_data, old_password, new_password, n) ==
    IF Len(file_data) < 32
    THEN [EncFail("TooSmall") EXCEPT !.steps = <<>>]
    ELSE IF new_password = <<>> THEN EncFail("EmptyPassword")
    ELSE LET book_data == DecryptBookData(file_data, old_password)
         IN  IF book_data.err # NoError
             THEN [EncFail(book_data.err) EXCEPT !.steps = book_data.steps]
             ELSE Reencrypted(book_data, EncryptBookData(book_data.doc, new_password, n))

ChangePassword(file_data, old_password, new_password, n) ==
    IF new_password = <<>> THEN EncFail("EmptyPassword")
    ELSE LET book_data == DecryptBookData(file_data, old_password)
         IN  IF book_data.err # NoError
             THEN [EncFail(book_data.err) EXCEPT !.steps = book_data.steps]
             ELSE Reencrypted(book_data, EncryptBookData(book_data.doc, new_password, n))

-----------------------------------------------------------------------------
(* Inputs.  Text: 97 'a', 112 'p', 233 e-acute (two bytes in UTF-8),       *)
(* 105 100 "id", 116 "t".                                                  *)

Passwords == {<<>>, <<112>>, <<233, 97>>}

EmptyDoc == <<>>
DocPlain == << <<(<<105, 100>>), (<<97>>)>> >>
DocEscapes == << <<(<<105, 100>>), (<<233, 34>>)>>, <<(<<116>>), (<<92, 10>>)>> >>

Docs == {EmptyDoc, DocPlain, DocEscapes}

Paths == {"a.book"}

(* File bytes handed to decrypt_book_data and change_password: the file on *)
(* disk and what encrypt_book_data returned last, as they are, with one    *)
(* byte changed, or cut short.                                             *)
Tamper(f, off) == [f EXCEPT ![off + 1] = (@ + 1) % 256]

TamperOffsets(f) ==
    {0, 4, 7, 8, 24, 36, Len(f) - TAG_SIZE - 1, Len(f) - TAG_SIZE, Len(f) - 1}

PrefixLens == {3, 31, 32, 35, 36}

Outputs == IF encs = <<>> THEN {} ELSE {encs[Len(encs)].out}

FilesOnDisk == {disk[p] : p \in {q \in Paths : disk[q] # NoFile}}

FileInputs ==
    Outputs \cup FilesOnDisk
    \cup UNION {{Tamper(f, off) : off \in TamperOffsets(f)} : f \in Outputs}
    \cup {Slice(f, 0, n) : <<f, n>> \in Outputs \X PrefixLens}
    \cup {Tamper(Tamper(f, 0), 4) : f \in Outputs}

(* decrypt_book_data is called on each of these with every password, and   *)
(* on the last output with any one byte of its ciphertext or tag changed   *)
(* with the password it was encrypted with.                                *)
DecryptInputs ==
    (FileInputs \X Passwords)
    \cup UNION {{<<Tamper(e.out, off), e.password>> : off \in 36..(Len(e.out) - 1)} :
                  e \in IF encs = <<>> THEN {} ELSE {encs[Len(encs)]}}

RotateInputs ==
    Outputs \cup {Tamper(f, 36) : f \in Outputs} \cup {Slice(f, 0, 31) : f \in Outputs}

-----------------------------------------------------------------------------
(* The state machine.                                                      *)

Call(op, file, pw, pw2, r) ==
    [op |-> op, file |-> file, pw |-> pw, pw2 |-> pw2, doc |-> r.doc,
     err |-> r.err, out |-> r.out, steps |-> r.steps, salt |-> r.salt,
     iv |-> r.iv, before |-> disk, ret |-> "None", via |-> "none"]

NoResult ==
    [doc |-> <<>>, err |-> NoError, out |-> <<>>, steps |-> <<>>,
     salt |-> <<>>, iv |-> <<>>]

Idle ==
    [op |-> "idle", file |-> <<>>, pw |-> <<>>, pw2 |-> <<>>, doc |-> <<>>,
     err |-> NoError, out |-> <<>>, steps |-> <<>>, salt |-> <<>>, iv |-> <<>>,
     before |-> [p \in Paths |-> NoFile], ret |-> "None", via |-> "none"]

Init ==
    /\ ser = Unused
    /\ wc = Unused
    /\ DeskUnused
    /\ seed \in {0, 1}
    /\ rng = 0
    /\ sealed = {}
    /\ encs = <<>>
    /\ disk = [p \in Paths |-> NoFile]
    /\ book = [data |-> DocEscapes, file_path |-> NoPath, is_encrypted |-> FALSE]
    /\ last = Idle

(* The bookkeeping of one encrypt_book_data call with outcome r.           *)
Encoded(password, r) ==
    IF r.err = NoError /\ r.draws > 0
    THEN /\ rng' = rng + r.draws
         /\ sealed' = sealed \cup {<<r.key, r.iv, r.data>>}
         /\ encs' = Append(encs, [book_data |-> r.doc, password |-> password,
                                  salt |-> r.salt, iv |-> r.iv, out |-> r.out])
    ELSE UNCHANGED <<rng, sealed, encs>>

(* engine.encrypt_book_data(d, p)                                          *)
Encrypt(d, p) ==
    /\ last = Idle
    /\ Len(encs) < MaxEncodes
    /\ LET r == EncryptBookData(d, p, rng)
       IN  /\ Encoded(p, r)
           /\ last' = Call("encrypt", <<>>, p, <<>>, [r EXCEPT !.doc = d])
    /\ UNCHANGED <<seed, disk, book, pure, desk>>

(* engine.decrypt_book_data(f, p)                                          *)
Decrypt(f, p) ==
    /\ last = Idle
    /\ LET r == DecryptBookData(f, p)
       IN  last' = Call("decrypt", f, p, <<>>, r @@ [out |-> <<>>])
    /\ UNCHANGED <<seed, rng, sealed, encs, disk, book, pure, desk>>

(* engine.change_password(f, old, new)                                     *)
Rotate(f, old, new) ==
    /\ last = Idle
    /\ Len(encs) < MaxEncodes
    /\ LET r == ChangePassword(f, old, new, rng)
       IN  /\ Encoded(new, r)
           /\ last' = Call("change_password", f, old, new, r)
    /\ UNCHANGED <<seed, disk, book, pure, desk>>

(* book.save_to_file(path, password); password may be None.               *)
SaveToFile(path, password) ==
    /\ last = Idle
    /\ Len(encs) < MaxEncodes
    /\ IF password # NoPassword /\ password # <<>>
       THEN LET r == EncryptBookData(book.data, password, rng)
            IN  /\ Encoded(password, r)
                /\ last' = Call("save_to_file", <<>>, password, <<>>, r)
                /\ IF r.err = NoError
                   THEN /\ disk' = [disk EXCEPT ![path] = r.out]
                        /\ book' = [book EXCEPT !.is_encrypted = TRUE,
                                                !.file_path = path]
                   ELSE UNCHANGED <<disk, book>>
       ELSE LET text == Utf8Encode(JsonDumps(book.data))
            IN  /\ disk' = [disk EXCEPT ![path] = text]
                /\ book' = [book EXCEPT !.is_encrypted = FALSE, !.file_path = path]
                /\ last' = Call("save_to_file", <<>>, password, <<>>,
                                [NoResult EXCEPT !.doc = book.data, !.out = text])
                /\ UNCHANGED <<rng, sealed, encs>>
    /\ UNCHANGED <<seed, pure, desk>>

(* The file opened for writing before the new bytes are there.             *)
BookChangePasswordTruncatesFirst(old, new) ==
    /\ last = Idle
    /\ Len(encs) < MaxEncodes
    /\ IF book.file_path = NoPath
       THEN /\ last' = Call("book_change_password", <<>>, old, new,
                            [NoResult EXCEPT !.err = "NotSaved"])
            /\ UNCHANGED <<rng, sealed, encs, disk>>
       ELSE LET file_data == disk[book.file_path]
                r == ChangePassword(file_data, old, new, rng)
            IN  /\ Encoded(new, r)
                /\ last' = Call("book_change_password", file_data, old, new, r)
                /\ disk' = [disk EXCEPT ![book.file_path] = r.out]
    /\ UNCHANGED <<seed, book, pure, desk>>

(* book.change_password(old_password, new_password)                        *)
BookChangePassword(old, new) ==
    /\ last = Idle
    /\ Len(encs) < MaxEncodes
    /\ IF book.file_path = NoPath
       THEN /\ last' = Call("book_change_password", <<>>, old, new,
                            [NoResult EXCEPT !.err = "NotSaved"])
            /\ UNCHANGED <<rng, sealed, encs, disk>>
       ELSE LET file_data == disk[book.file_path]
                r == ChangePassword(file_data, old, new, rng)
            IN  /\ Encoded(new, r)
                /\ last' = Call("book_change_password", file_data, old, new, r)
                /\ IF r.err = NoError
                   THEN disk' = [disk EXCEPT ![book.file_path] = r.out]
                   ELSE UNCHANGED disk
    /\ UNCHANGED <<seed, book, pure, desk>>

(* The caller has taken the outcome of its call; the next call can start.  *)
Return ==
    /\ last # Idle
    /\ last' = Idle
    /\ UNCHANGED <<seed, rng, sealed, encs, disk, book, pure, desk>>

Next ==
    \/ \E d \in Docs, p \in Passwords : Encrypt(d, p)
    \/ \E x \in DecryptInputs : Decrypt(x[1], x[2])
    \/ \E f \in RotateInputs, old \in Passwords, new \in Passwords : Rotate(f, old, new)
    \/ \E path \in Paths, p \in Passwords \cup {NoPassword} : SaveToFile(path, p)
    \/ \E old \in Passwords, new \in Passwords : BookChangePassword(old, new)
    \/ Return

Spec == Init /\ [][Next]_vars

-----------------------------------------------------------------------------
(* Opening files.  A file on disk need not have been written by this       *)
(* program: another writer of the container format can seal any payload    *)
(* under a password, and any bytes can sit in a file with no container     *)
(* around them.                                                            *)

(* The exceptions of the model that are ValueError or a subclass of it:    *)
(* every `raise ValueError(...)` of the engine and of Book, and            *)
(* UnicodeDecodeError.  AttributeError and FileNotFoundError are not.      *)
IsValueError(kind) ==
    kind \in {"TooSmall", "BadMagic", "UnsupportedVersion",
              "InvalidPasswordOrCorrupt", "CorruptData", "EmptyPassword",
              "EmptyData", "PasswordRequired", "NotSaved", "UnicodeDecodeError"}

(* EncryptionEngine.verify_password(file_data, password)                   *)
VerifyPassword(file_data, password) ==
    LET r == DecryptBookData(file_data, password)
    IN  IF r.err = NoError THEN [ret |-> "True", err |-> NoError]
        ELSE IF IsValueError(r.err) THEN [ret |-> "False", err |-> NoError]
        ELSE [ret |-> "None", err |-> r.err]

(* Book.from_dict(data) on what json.loads returned: `data.get` exists on  *)
(* a dict only.  The document itself is carried as its dictionary here;    *)
(* its fields are taken apart under SpecSerializer.                        *)
BookFromData(val, kind, via, steps) ==
    IF kind # "dict"
    THEN [err |-> "AttributeError", doc |-> <<>>, via |-> via, steps |-> steps]
    ELSE [err |-> NoError, doc |-> val, via |-> via, steps |-> steps]

(* Book.load_from_file(file_path, password) on the bytes read from the     *)
(* file; `if password:` is false for None and for "".                      *)
LoadFromFile(file_data, password) ==
    IF password # NoPassword /\ password # <<>>
    THEN LET book_data == DecryptBookData(file_data, password)
         IN  IF book_data.err # NoError
             THEN [err |-> book_data.err, doc |-> <<>>, via |-> "decrypt_book_data",
                   steps |-> book_data.steps]
             ELSE BookFromData(book_data.doc, book_data.kind, "decrypt_book_data",
                               book_data.steps)
    ELSE LET text == Utf8Decode(file_data)
             book_data == JsonLoads(text.val)
         IN  IF ~text.ok \/ ~book_data.ok
             THEN [err |-> "PasswordRequired", doc |-> <<>>, via |-> "json.loads",
                   steps |-> <<>>]
             ELSE BookFromData(book_data.val, book_data.kind, "json.loads", <<>>)

(* MainWindow.open_book_file: `header == b"BOOK"` on the first 4 bytes.    *)
HeaderIsEncryptedFirstByte(header) == Slice(header, 0, 1) = Slice(MAGIC_NUMBER, 0, 1)

HeaderIsEncrypted(header) == header = MAGIC_NUMBER

(* Payloads another writer seals in a container: bytes that are no zlib    *)
(* stream, and compressed bytes that are not UTF-8, not JSON, a JSON       *)
(* string, a document.                                                     *)
ForeignPayloads ==
    {<<1, 2, 3>>, ZlibCompress(<<255>>), ZlibCompress(<<123, 120>>),
     ZlibCompress(<<34, 97, 34>>), SerializeBookData(DocPlain)}

(* Files with no container: a document, bytes that are not UTF-8, text     *)
(* that is not JSON (two of them starting like the magic number), a JSON   *)
(* string.                                                                 *)
ForeignFiles ==
    {Utf8Encode(JsonDumps(DocPlain)), <<255, 254>>, <<66, 79, 79, 75, 83>>,
     <<66, 79, 79, 84>>, <<123, 120>>, <<34, 97, 34>>}

(* A file from elsewhere is in place before the program first writes to   *)
(* its path.                                                               *)
ForeignContainer(path, payload, p) ==
    /\ last = Idle
    /\ disk[path] = NoFile
    /\ LET salt == NewSalt(rng)
           iv == NewIv(rng)
           key == DeriveKey(p, salt)
           data == AESGCM_encrypt(key, iv, payload)
       IN  /\ disk' = [disk EXCEPT ![path] = BuildHeader(salt, iv) \o data]
           /\ sealed' = sealed \cup {<<key, iv, data>>}
    /\ rng' = rng + 2
    /\ UNCHANGED <<seed, encs, last, book, pure, desk>>

ForeignFile(path, content) ==
    /\ last = Idle
    /\ disk[path] = NoFile
    /\ disk' = [disk EXCEPT ![path] = content]
    /\ UNCHANGED <<seed, rng, sealed, encs, last, book, pure, desk>>

(* engine.decrypt_book_data on the bytes of a file.                        *)
DecryptFile(path, p) ==
    /\ disk[path] # NoFile
    /\ Decrypt(disk[path], p)

(* engine.verify_password on the bytes of a file.                          *)
VerifyFile(path, p) ==
    /\ last = Idle
    /\ disk[path] # NoFile
    /\ LET r == VerifyPassword(disk[path], p)
           d == DecryptBookData(disk[path], p)
       IN  last' = [Call("verify_password", disk[path], p, <<>>,
                         [NoResult EXCEPT !.err = r.err, !.steps = d.steps])
                    EXCEPT !.ret = r.ret]
    /\ UNCHANGED <<seed, rng, sealed, encs, disk, book, pure, desk>>

(* The bookkeeping of one Book.load_from_file call with outcome r: the     *)
(* Book returned has `is_encrypted = password is not None`.                *)
Loaded(op, path, password, r) ==
    /\ last' = [Call(op, disk[path], password, <<>>,
                     [NoResult EXCEPT !.err = r.err, !.doc = r.doc,
                                      !.steps = r.steps])
                EXCEPT !.via = r.via]
    /\ IF r.err = NoError
       THEN book' = [data |-> r.doc, file_path |-> path,
                     is_encrypted |-> (password # NoPassword)]
       ELSE UNCHANGED book

(* Book.load_from_file(path, password); password may be None.              *)
LoadFile(path, password) ==
    /\ last = Idle
    /\ disk[path] # NoFile
    /\ Loaded("load_from_file", path, password, LoadFromFile(disk[path], password))
    /\ UNCHANGED <<seed, rng, sealed, encs, disk, pure, desk>>

(* MainWindow.open_book_file(path): the password dialog is shown for a     *)
(* file that starts with the magic number and gives a non-empty password   *)
(* or is cancelled (answer None).                                          *)
OpenBookFile(path, answer) ==
    /\ last = Idle
    /\ disk[path] # NoFile
    /\ IF HeaderIsEncrypted(Slice(disk[path], 0, 4))
       THEN IF answer = NoPassword
            THEN /\ last' = [Call("open_book_file", disk[path], answer, <<>>, NoResult)
                             EXCEPT !.via = "cancelled"]
                 /\ UNCHANGED book
            ELSE Loaded("open_book_file", path, answer,
                        LoadFromFile(disk[path], answer))
       ELSE Loaded("open_book_file", path, NoPassword,
                   LoadFromFile(disk[path], NoPassword))
    /\ UNCHANGED <<seed, rng, sealed, encs, disk, pure, desk>>

VaultInit ==
    /\ ser = Unused
    /\ wc = Unused
    /\ DeskUnused
    /\ seed = 0
    /\ rng = 0
    /\ sealed = {}
    /\ encs = <<>>
    /\ disk = [p \in Paths |-> NoFile]
    /\ book = [data |-> DocEscapes, file_path |-> NoPath, is_encrypted |-> FALSE]
    /\ last = Idle

VaultNext ==
    \/ \E path \in Paths, p \in Passwords \cup {NoPassword} : SaveToFile(path, p)
    \/ \E path \in Paths, payload \in ForeignPayloads, p \in Passwords \ {<<>>} :
           ForeignContainer(path, payload, p)
    \/ \E path \in Paths, content \in ForeignFiles : ForeignFile(path, content)
    \/ \E path \in Paths, p \in Passwords : DecryptFile(path, p)
    \/ \E path \in Paths, p \in Passwords : VerifyFile(path, p)
    \/ \E path \in Paths, p \in Passwords \cup {NoPassword} : LoadFile(path, p)
    \/ \E path \in Paths, answer \in (Passwords \ {<<>>}) \cup {NoPassword} :
           OpenBookFile(path, answer)
    \/ Return

SpecVault == VaultInit /\ [][VaultNext]_vars

-----------------------------------------------------------------------------
(* Properties.                                                             *)

Entries == {encs[i] : i \in 1..Len(encs)}

VersionOneLE == <<1, 0, 0, 0>>

(* The positions (1-based) at which two byte strings of one length differ. *)
DiffPositions(a, b) == {k \in 1..Len(a) : a[k] # b[k]}

(* C1. Round trip: decrypt_book_data of what encrypt_book_data(d, p)       *)
(* returned, with the same password p, succeeds and returns a dictionary   *)
(* equal to d, whatever salt and nonce were drawn.                         *)
C1_RoundTrip ==
    last.op = "decrypt" =>
        \A e \in Entries :
            (e.out = last.file /\ e.password = last.pw)
                => (last.err = NoError /\ last.doc = e.book_data)

C1_Witness ==
    /\ last.op = "decrypt"
    /\ last.err = NoError
    /\ last.doc = DocEscapes
    /\ \E e \in Entries :
           e.out = last.file /\ e.password = last.pw /\ e.book_data = DocEscapes

(* C2. Wrong password: decoding what encode(x, p) returned with a password *)
(* q # p fails with InvalidPasswordOrCorrupt and returns no document.      *)
C2_WrongPasswordRejected ==
    last.op = "decrypt" =>
        \A e \in Entries :
            (e.out = last.file /\ e.password # last.pw)
                => (last.err = "InvalidPasswordOrCorrupt" /\ last.doc = <<>>)

C2_Witness ==
    /\ last.op = "decrypt"
    /\ last.pw # <<>>
    /\ last.err = "InvalidPasswordOrCorrupt"
    /\ \E e \in Entries : e.out = last.file /\ e.password # last.pw

(* C3. Tamper detection: a valid encoded file with exactly one byte at     *)
(* offset 36 or later changed fails to decode with the correct password,   *)
(* with InvalidPasswordOrCorrupt; no document is returned.                 *)
C3_TamperDetected ==
    last.op = "decrypt" =>
        \A e \in Entries :
            (/\ e.password = last.pw
             /\ Len(last.file) = Len(e.out)
             /\ Cardinality(DiffPositions(last.file, e.out)) = 1
             /\ \A k \in DiffPositions(last.file, e.out) : k - 1 >= 36)
                => (last.err = "InvalidPasswordOrCorrupt" /\ last.doc = <<>>)

C3_Witness ==
    /\ last.op = "decrypt"
    /\ last.err = "InvalidPasswordOrCorrupt"
    /\ \E e \in Entries :
           /\ e.password = last.pw
           /\ Len(last.file) = Len(e.out)
           /\ DiffPositions(last.file, e.out) = {Len(e.out) - TAG_SIZE}

(* C4. Freshness: every encode call draws a new salt and a new nonce: two  *)
(* blocks of the random source per call, and two outputs never share a     *)
(* salt, a nonce, their header bytes or their ciphertext.                  *)
C4_FreshSaltAndNonce ==
    /\ rng = 2 * Len(encs)
    /\ \A i, j \in 1..Len(encs) :
           i < j =>
               /\ encs[i].salt # encs[j].salt
               /\ encs[i].iv # encs[j].iv
               /\ Slice(encs[i].out, 0, 36) # Slice(encs[j].out, 0, 36)
               /\ Slice(encs[i].out, 36, Len(encs[i].out))
                      # Slice(encs[j].out, 36, Len(encs[j].out))

C4_Witness ==
    \E i, j \in 1..Len(encs) :
        /\ i < j
        /\ encs[i].book_data = encs[j].book_data
        /\ encs[i].password = encs[j].password
        /\ encs[i].out # encs[j].out

(* C5. Password rotation: when change_password(encode(x, old), old, new)   *)
(* with old # new returns bytes, they decode with new to x, and decoding   *)
(* them with old fails with InvalidPasswordOrCorrupt.                      *)
C5_RotationCorrect ==
    (last.op \in {"change_password", "book_change_password"} /\ last.err = NoError
     /\ last.pw # last.pw2) =>
        \A e \in Entries :
            (e.out = last.file /\ e.password = last.pw) =>
                /\ DecryptBookData(last.out, last.pw2).err = NoError
                /\ DecryptBookData(last.out, last.pw2).doc = e.book_data
                /\ DecryptBookData(last.out, last.pw).err = "InvalidPasswordOrCorrupt"

C5_Witness ==
    /\ last.op = "change_password"
    /\ last.err = NoError
    /\ last.pw # last.pw2
    /\ \E e \in Entries : e.out = last.file /\ e.password = last.pw
    /\ DecryptBookData(last.out, last.pw2).doc = DocEscapes

(* C6. Empty-password guard: encode with an empty password fails with      *)
(* EmptyPassword for every document and returns no bytes; change_password  *)
(* with an empty new password fails with EmptyPassword for every input,    *)
(* and the file on disk is what it was before the call.                    *)
C6_EmptyPasswordGuard ==
    /\ (last.op = "encrypt" /\ last.pw = <<>>)
           => (last.err = "EmptyPassword" /\ last.out = <<>>)
    /\ (last.op = "change_password" /\ last.pw2 = <<>>)
           => (last.err = "EmptyPassword" /\ last.out = <<>> /\ disk = last.before)
    /\ (last.op = "book_change_password" /\ last.pw2 = <<>>)
           => /\ last.err # NoError
              /\ disk = last.before
              /\ book.file_path # NoPath => last.err = "EmptyPassword"

C6_Witness ==
    /\ last.op = "book_change_password"
    /\ last.pw2 = <<>>
    /\ last.pw # <<>>
    /\ last.err = "EmptyPassword"
    /\ book.file_path # NoPath
    /\ book.is_encrypted
    /\ disk[book.file_path] # NoFile
    /\ DecryptBookData(disk[book.file_path], last.pw).err # NoError

(* C7. Version gate: an input of at least 32 bytes that starts with the    *)
(* magic and whose bytes 4..8 are not 1 in little-endian fails with        *)
(* UnsupportedVersion, for every password and whatever follows.            *)
C7_VersionGate ==
    (/\ last.op = "decrypt"
     /\ Len(last.file) >= 32
     /\ Slice(last.file, 0, 4) = MAGIC_NUMBER
     /\ Slice(last.file, 4, 8) # VersionOneLE)
        => last.err = "UnsupportedVersion"

C7_Witness ==
    /\ last.op = "decrypt"
    /\ last.err = "UnsupportedVersion"
    /\ Slice(last.file, 4, 8) = <<1, 0, 0, 1>>
    /\ \E e \in Entries :
           /\ e.password = last.pw
           /\ Slice(e.out, 8, Len(e.out)) = Slice(last.file, 8, Len(last.file))

(* C8. Header layout: every output of encode is magic, version 1 as u32    *)
(* little-endian, the 16-byte salt, the 12-byte nonce, then the ciphertext *)
(* with its 16-byte tag (at least 52 bytes in all); decode reads at        *)
(* offsets 8..24 and 24..36 the salt and nonce that encode used.           *)
C8_HeaderLayout ==
    /\ \A e \in Entries :
           /\ Slice(e.out, 0, 4) = MAGIC_NUMBER
           /\ Slice(e.out, 4, 8) = VersionOneLE
           /\ Len(e.salt) = 16 /\ Slice(e.out, 8, 24) = e.salt
           /\ Len(e.iv) = 12 /\ Slice(e.out, 24, 36) = e.iv
           /\ Len(e.out) >= 52
    /\ last.op = "decrypt" =>
           \A e \in Entries :
               e.out = last.file => (last.salt = e.salt /\ last.iv = e.iv)

C8_Witness ==
    /\ last.op = "decrypt"
    /\ \E e \in Entries :
           e.out = last.file /\ last.salt = e.salt /\ last.iv = e.iv /\ Len(e.out) > 52

(* C9. Structural checks come first, in a fixed order: TooSmall under 32   *)
(* bytes, else BadMagic, else UnsupportedVersion; none of the three is     *)
(* raised after a key derivation or a decryption.                          *)
C9_StructuralChecksFirst ==
    last.op = "decrypt" =>
        /\ Len(last.file) < 32 => last.err = "TooSmall"
        /\ (Len(last.file) >= 32 /\ Slice(last.file, 0, 4) # MAGIC_NUMBER)
               => last.err = "BadMagic"
        /\ (/\ Len(last.file) >= 32
            /\ Slice(last.file, 0, 4) = MAGIC_NUMBER
            /\ Slice(last.file, 4, 8) # VersionOneLE)
               => last.err = "UnsupportedVersion"
        /\ last.err \in {"TooSmall", "BadMagic", "UnsupportedVersion"}
               => last.steps = <<>>

C9_Witness ==
    /\ last.op = "decrypt"
    /\ Len(last.file) = 3
    /\ Slice(last.file, 0, 4) # MAGIC_NUMBER
    /\ last.err = "TooSmall"
    /\ last.steps = <<>>

(* C10. Complete header: whenever decode derives a key and attempts the    *)
(* decryption, the input held a complete 36-byte header: the parsed salt   *)
(* is 16 bytes and the parsed nonce is 12 bytes.                           *)
C10_CompleteHeader ==
    (last.op = "decrypt" /\ \E k \in 1..Len(last.steps) : last.steps[k] = "derive_key")
        => (Len(last.file) >= 36 /\ Len(last.salt) = 16 /\ Len(last.iv) = 12)

-----------------------------------------------------------------------------
(* Properties of opening and saving files.                                 *)

(* The errors decrypt_book_data raises by design.                          *)
DecodeFamily ==
    {"TooSmall", "BadMagic", "UnsupportedVersion", "InvalidPasswordOrCorrupt",
     "CorruptData"}

(* The bytes AES-GCM gives back for the file of the last call, under the   *)
(* password of the call.                                                   *)
RecoveredBytes ==
    GcmOpen(DeriveKey(last.pw, Slice(last.file, 8, 24)), Slice(last.file, 24, 36),
            Slice(last.file, 36, Len(last.file)))

Reached(step) == \E k \in 1..Len(last.steps) : last.steps[k] = step

(* C11. CorruptData: when the tag verifies but the recovered bytes cannot  *)
(* be decompressed, are not valid UTF-8, or are not parseable JSON, the    *)
(* decode fails with CorruptData and returns no document.                  *)
C11_CorruptData ==
    (last.op = "decrypt" /\ Reached("decompress")) =>
        LET raw == ZlibDecompress(RecoveredBytes)
            text == Utf8Decode(raw.val)
            parsed == JsonLoads(text.val)
        IN  (~raw.ok \/ ~text.ok \/ ~parsed.ok)
                => (last.err = "CorruptData" /\ last.doc = <<>>)

(* C12. verify_password returns true exactly when the decode succeeds,     *)
(* returns false without raising when the decode fails with an error of    *)
(* the decode family, and lets any other error propagate.                  *)
C12_VerifyPassword ==
    last.op = "verify_password" =>
        LET d == DecryptBookData(last.file, last.pw)
        IN  /\ (last.ret = "True") <=> (d.err = NoError)
            /\ d.err \in DecodeFamily => (last.ret = "False" /\ last.err = NoError)
            /\ d.err \notin DecodeFamily \cup {NoError}
                   => (last.ret = "None" /\ last.err = d.err)

(* C13. Open without a password: load_from_file(path) returns the document *)
(* when the file is a plain serialized document; for a file in the         *)
(* container format, and for any other content that is not a plain         *)
(* document, it fails with PasswordRequired and returns no Book.           *)
C13_OpenWithoutPassword ==
    (last.op = "load_from_file" /\ last.pw = NoPassword) =>
        LET text == Utf8Decode(last.file)
            parsed == JsonLoads(text.val)
            plain == text.ok /\ parsed.ok /\ parsed.kind = "dict"
        IN  /\ plain => (last.err = NoError /\ last.doc = parsed.val
                         /\ book.data = parsed.val)
            /\ ~plain => (last.err = "PasswordRequired" /\ last.doc = <<>>)
            /\ Slice(last.file, 0, 4) = MAGIC_NUMBER => ~plain

(* C14. Open with a password: load_from_file with a password present goes *)
(* through decrypt_book_data and never parses the file as plain; an error  *)
(* of the decode reaches the caller unchanged; a plain file opened with a  *)
(* password is rejected with the decode's error.                           *)
C14_OpenWithPassword ==
    (last.op \in {"load_from_file", "open_book_file"} /\ last.pw # NoPassword) =>
        LET d == DecryptBookData(last.file, last.pw)
        IN  /\ last.via = "decrypt_book_data"
            /\ d.err # NoError => (last.err = d.err /\ last.doc = <<>>)
            /\ Slice(last.file, 0, 4) # MAGIC_NUMBER
                   => last.err \in {"TooSmall", "BadMagic"}

C18_RotationFresh ==
    (last.op \in {"change_password", "book_change_password"} /\ last.err = NoError) =>
        /\ Slice(last.out, 8, 24) # Slice(last.file, 8, 24)
        /\ Slice(last.out, 24, 36) # Slice(last.file, 24, 36)
        /\ Slice(last.out, 8, 24) = last.salt
        /\ Slice(last.out, 24, 36) = last.iv
        /\ \A k \in 1..(Len(encs) - 1) :
               encs[k].salt # last.salt /\ encs[k].iv # last.iv

C18_Witness ==
    /\ last.op = "change_password"
    /\ last.err = NoError
    /\ last.pw = last.pw2
    /\ Len(encs) = 2
    /\ encs[1].out = last.file
    /\ encs[2].out = last.out

(* C19. save_to_file with a password that is supplied but empty fails      *)
(* with EmptyPassword and writes nothing.                                  *)
C19_EmptyPasswordSave ==
    (last.op = "save_to_file" /\ last.pw = <<>>) =>
        (last.err = "EmptyPassword" /\ disk = last.before)

-----------------------------------------------------------------------------
(* Book.to_dict and Book.from_dict (src/core/book.py).  An object is a     *)
(* record of its fields; a dictionary is a function from its keys; a list  *)
(* is a sequence.  Strings are strings, except the ISO text of a datetime, *)
(* which is a sequence of code points.  A uuid is a natural number taken   *)
(* from a counter, a datetime is a record of its seven fields.             *)

MaxItems == 2

(* uuid.uuid4(): the k-th value of a stream that does not repeat.          *)
Uuid4(k) == 1000 + k

(* datetime.now() at tick n of the clock; every second tick falls on a     *)
(* whole second.                                                           *)
Now(n) ==
    [year |-> 2025, month |-> 3, day |-> 9, hour |-> 14, minute |-> 5,
     second |-> n % 60, microsecond |-> IF n % 2 = 0 THEN 0 ELSE 1200 + n]

(* n in decimal, w digits wide.                                            *)
Digits(n, w) == [i \in 1..w |-> 48 + ((n \div (10 ^ (w - i))) % 10)]

IsoFormatSeconds(dt) ==
    Digits(dt.year, 4) \o <<45>> \o Digits(dt.month, 2) \o <<45>>
    \o Digits(dt.day, 2) \o <<84>> \o Digits(dt.hour, 2) \o <<58>>
    \o Digits(dt.minute, 2) \o <<58>> \o Digits(dt.second, 2)

(* datetime.isoformat(): YYYY-MM-DDTHH:MM:SS, then .ffffff when the        *)
(* microsecond is not 0.                                                   *)
IsoFormat(dt) ==
    Digits(dt.year, 4) \o <<45>> \o Digits(dt.month, 2) \o <<45>>
    \o Digits(dt.day, 2) \o <<84>> \o Digits(dt.hour, 2) \o <<58>>
    \o Digits(dt.minute, 2) \o <<58>> \o Digits(dt.second, 2)
    \o (IF dt.microsecond = 0 THEN <<>> ELSE <<46>> \o Digits(dt.microsecond, 6))

IsDigits(t, lo, hi) == \A i \in lo..hi : t[i] \in 48..57

RECURSIVE Number(_, _, _)
Number(t, lo, hi) ==
    IF lo > hi THEN 0 ELSE Number(t, lo, hi - 1) * 10 + (t[hi] - 48)

(* datetime.fromisoformat on the two forms isoformat() writes; any other   *)
(* text is taken as invalid (ValueError).                                  *)
FromIsoFormat(t) ==
    IF /\ Len(t) \in {19, 26}
       /\ IsDigits(t, 1, 4) /\ t[5] = 45 /\ IsDigits(t, 6, 7) /\ t[8] = 45
       /\ IsDigits(t, 9, 10) /\ t[11] = 84 /\ IsDigits(t, 12, 13) /\ t[14] = 58
       /\ IsDigits(t, 15, 16) /\ t[17] = 58 /\ IsDigits(t, 18, 19)
       /\ Len(t) = 26 => (t[20] = 46 /\ IsDigits(t, 21, 26))
    THEN [ok |-> TRUE,
          val |-> [year |-> Number(t, 1, 4), month |-> Number(t, 6, 7),
                   day |-> Number(t, 9, 10), hour |-> Number(t, 12, 13),
                   minute |-> Number(t, 15, 16), second |-> Number(t, 18, 19),
                   microsecond |-> IF Len(t) = 26 THEN Number(t, 21, 26) ELSE 0]]
    ELSE [ok |-> FALSE, val |-> <<>>]

ListNames == {"chapters", "characters", "world_building", "story_notes"}

(* The dataclass of the items of each list with the defaults of its        *)
(* fields: Chapter, Character, WorldBuilding, StoryNote.                   *)
ItemDefaults(list, uid, now) ==
    CASE list = "chapters" ->
             [id |-> uid, title |-> "", content |-> "", order |-> 0,
              word_count |-> 0, created |-> now, modified |-> now]
      [] list = "characters" ->
             [id |-> uid, name |-> "", description |-> "", background |-> "",
              attributes |-> <<>>, image_path |-> "", created |-> now,
              modified |-> now]
      [] list = "world_building" ->
             [id |-> uid, name |-> "", description |-> "", locations |-> <<>>,
              rules |-> <<>>, history |-> "", created |-> now, modified |-> now]
      [] list = "story_notes" ->
             [id |-> uid, title |-> "", content |-> "", created |-> now,
              modified |-> now]

(* X.to_dict(): asdict(self), created and modified as ISO text.            *)
ItemToDict(item) ==
    [item EXCEPT !.created = IsoFormat(@), !.modified = IsoFormat(@)]

(* The date under key k of a dictionary, parsed when the key is there.     *)
ParsedDate(data, k) ==
    IF k \in DOMAIN data THEN FromIsoFormat(data[k]) ELSE [ok |-> TRUE, val |-> <<>>]

(* X.from_dict(data): the two dates parsed, then the dataclass is built   *)
(* with the keys of data as keyword arguments; a key that is no field of   *)
(* the dataclass is an unexpected keyword argument (TypeError).            *)
ItemFromDict(list, data, uid, now) ==
    LET created == ParsedDate(data, "created")
        modified == ParsedDate(data, "modified")
        defaults == ItemDefaults(list, uid, now)
    IN  IF ~created.ok \/ ~modified.ok THEN [err |-> "ValueError", val |-> <<>>]
        ELSE IF ~(DOMAIN data \subseteq DOMAIN defaults)
        THEN [err |-> "TypeError", val |-> <<>>]
        ELSE [err |-> NoError,
              val |-> [f \in DOMAIN defaults |->
                          IF f \notin DOMAIN data THEN defaults[f]
                          ELSE IF f = "created" THEN created.val
                          ELSE IF f = "modified" THEN modified.val
                          ELSE data[f]]]

(* Book.__init__(title): a new Book with uuid uid at time now.             *)
NewBook(title, uid, now) ==
    [id |-> uid, title |-> title, author |-> "", genre |-> "",
     created |-> now, modified |-> now,
     chapters |-> <<>>, characters |-> <<>>, world_building |-> <<>>,
     story_notes |-> <<>>,
     story_background |-> "", plot_outline |-> "", research_notes |-> "",
     timeline |-> "",
     metadata |-> [language |-> "en", target_audience |-> "",
                   estimated_pages |-> 0, status |-> "draft", tags |-> <<>>]]

(* Book.to_dict()                                                          *)
BookToDict(b) ==
    [id |-> b.id, title |-> b.title, author |-> b.author, genre |-> b.genre,
     created |-> IsoFormat(b.created), modified |-> IsoFormat(b.modified),
     chapters |-> [i \in 1..Len(b.chapters) |-> ItemToDict(b.chapters[i])],
     characters |-> [i \in 1..Len(b.characters) |-> ItemToDict(b.characters[i])],
     world_building |->
         [i \in 1..Len(b.world_building) |-> ItemToDict(b.world_building[i])],
     story_notes |-> [i \in 1..Len(b.story_notes) |-> ItemToDict(b.story_notes[i])],
     story_background |-> b.story_background, plot_outline |-> b.plot_outline,
     research_notes |-> b.research_notes, timeline |-> b.timeline,
     metadata |-> b.metadata]

(* data.get(k, default)                                                    *)
Get(data, k, default) == IF k \in DOMAIN data THEN data[k] ELSE default

(* [X.from_dict(d) for d in data.get(list, [])]; the uuids of the items    *)
(* built are Uuid4(k + 1), Uuid4(k + 2), ...                               *)
ItemsFromDict(list, data, k, now) ==
    LET dicts == Get(data, list, <<>>)
    IN  [i \in 1..Len(dicts) |-> ItemFromDict(list, dicts[i], Uuid4(k + i), now)]

FirstError(results) ==
    IF \A i \in 1..Len(results) : results[i].err = NoError THEN NoError
    ELSE results[CHOOSE i \in 1..Len(results) :
                     /\ results[i].err # NoError
                     /\ \A j \in 1..(i - 1) : results[j].err = NoError].err

Values(results) == [i \in 1..Len(results) |-> results[i].val]

(* Book.from_dict(data) with uuid.uuid4() at position k of its stream and  *)
(* the clock at now.                                                       *)
BookFromDict(data, k, now) ==
    LET blank == NewBook("", Uuid4(k), now)
        created == ParsedDate(data, "created")
        modified == ParsedDate(data, "modified")
        chapters == ItemsFromDict("chapters", data, k + 10, now)
        characters == ItemsFromDict("characters", data, k + 20, now)
        world_building == ItemsFromDict("world_building", data, k + 30, now)
        story_notes == ItemsFromDict("story_notes", data, k + 40, now)
        errs == <<FirstError(chapters), FirstError(characters),
                  FirstError(world_building), FirstError(story_notes)>>
    IN  IF ~created.ok \/ ~modified.ok THEN [err |-> "ValueError", val |-> <<>>]
        ELSE IF \E i \in 1..4 : errs[i] # NoError
        THEN [err |-> errs[CHOOSE i \in 1..4 :
                              /\ errs[i] # NoError
                              /\ \A j \in 1..(i - 1) : errs[j] = NoError],
              val |-> <<>>]
        ELSE [err |-> NoError,
              val |-> [id |-> Get(data, "id", Uuid4(k + 1)),
                       title |-> Get(data, "title", ""),
                       author |-> Get(data, "author", ""),
                       genre |-> Get(data, "genre", ""),
                       created |-> IF "created" \in DOMAIN data
                                   THEN created.val ELSE blank.created,
                       modified |-> IF "modified" \in DOMAIN data
                                    THEN modified.val ELSE blank.modified,
                       chapters |-> Values(chapters),
                       characters |-> Values(characters),
                       world_building |-> Values(world_building),
                       story_notes |-> Values(story_notes),
                       story_background |-> Get(data, "story_background", ""),
                       plot_outline |-> Get(data, "plot_outline", ""),
                       research_notes |-> Get(data, "research_notes", ""),
                       timeline |-> Get(data, "timeline", ""),
                       metadata |-> Get(data, "metadata", <<>>)]]

-----------------------------------------------------------------------------
(* The dictionary conversion as a state machine: a Book is built by its    *)
(* add_* methods, to_dict() gives its dictionary, the dictionary may lose  *)
(* one key or gain one unknown key (it was written, or will be read, by    *)
(* another version of the format), from_dict() reads it.                   *)

(* The fields the editor gives a new item of each list.                    *)
ItemInputs(list) ==
    CASE list = "chapters" ->
             {[title |-> "", content |-> "", word_count |-> 0],
              [title |-> "One", content |-> "ab", word_count |-> 2]}
      [] list = "characters" -> {[name |-> "Ann", attributes |-> [age |-> "30"]]}
      [] list = "world_building" ->
             {[name |-> "Arrakis", locations |-> [sietch |-> "Tabr"]]}
      [] list = "story_notes" -> {[title |-> "n", content |-> "c"]}

Overridden(defaults, given) ==
    [f \in DOMAIN defaults |-> IF f \in DOMAIN given THEN given[f] ELSE defaults[f]]

TotalItems(b) ==
    Len(b.chapters) + Len(b.characters) + Len(b.world_building) + Len(b.story_notes)

(* The places of a dictionary where a key can be dropped or added: the top *)
(* level and every item of the four lists.                                 *)
Places ==
    {<<"top", 0>>} \cup {<<l, i>> : l \in ListNames, i \in 1..MaxItems}

HasPlace(data, w) ==
    w[1] = "top" \/ (w[1] \in DOMAIN data /\ w[2] <= Len(data[w[1]]))

DictAt(data, w) == IF w[1] = "top" THEN data ELSE data[w[1]][w[2]]

Replaced(data, w, d) ==
    IF w[1] = "top" THEN d ELSE [data EXCEPT ![w[1]][w[2]] = d]

Without(d, f) == [k \in DOMAIN d \ {f} |-> d[k]]

SerInit ==
    /\ seed = 0
    /\ rng = 0
    /\ sealed = {}
    /\ encs = <<>>
    /\ disk = [p \in Paths |-> NoFile]
    /\ book = [data |-> DocEscapes, file_path |-> NoPath, is_encrypted |-> FALSE]
    /\ last = Idle
    /\ wc = Unused
    /\ DeskUnused
    /\ \E title \in {"", "Dune"} :
           ser = [phase |-> "book", book |-> NewBook(title, Uuid4(0), Now(0)),
                  data |-> <<>>, back |-> <<>>, err |-> NoError,
                  drift |-> "none", place |-> <<"top", 0>>, key |-> "",
                  clock |-> 1, uuid |-> 1]

(* book.add_chapter / add_character / add_world_building / add_story_note, *)
(* then the editor fills the fields of the new item.                       *)
AddItem(list, given) ==
    /\ ser.phase = "book"
    /\ TotalItems(ser.book) < MaxItems
    /\ LET defaults == ItemDefaults(list, Uuid4(ser.uuid), Now(ser.clock))
           placed == IF list = "chapters"
                     THEN [defaults EXCEPT !.order = Len(ser.book.chapters)]
                     ELSE defaults
           item == Overridden(placed, given)
       IN  ser' = [ser EXCEPT !.book = [@ EXCEPT ![list] = Append(@, item),
                                                 !.modified = Now(ser.clock)],
                              !.clock = @ + 1, !.uuid = @ + 1]
    /\ UNCHANGED <<files, wc, desk>>

(* book.to_dict()                                                          *)
ToDict ==
    /\ ser.phase = "book"
    /\ ser' = [ser EXCEPT !.phase = "dict", !.data = BookToDict(ser.book)]
    /\ UNCHANGED <<files, wc, desk>>

(* The dictionary comes from a writer that did not know key f.             *)
DropKey(w, f) ==
    /\ ser.phase = "dict"
    /\ HasPlace(ser.data, w)
    /\ f \in DOMAIN DictAt(ser.data, w)
    /\ ser' = [ser EXCEPT !.phase = "drifted", !.drift = "missing", !.place = w,
                          !.key = f,
                          !.data = Replaced(@, w, Without(DictAt(@, w), f))]
    /\ UNCHANGED <<files, wc, desk>>

(* The dictionary comes from a writer that knows one more key.             *)
AddKey(w) ==
    /\ ser.phase = "dict"
    /\ HasPlace(ser.data, w)
    /\ ser' = [ser EXCEPT !.phase = "drifted", !.drift = "unknown", !.place = w,
                          !.key = "extra",
                          !.data = Replaced(@, w, DictAt(@, w) @@ [extra |-> "x"])]
    /\ UNCHANGED <<files, wc, desk>>

(* Book.from_dict(data)                                                    *)
FromDict ==
    /\ ser.phase \in {"dict", "drifted"}
    /\ LET r == BookFromDict(ser.data, ser.uuid, Now(ser.clock))
       IN  ser' = [ser EXCEPT !.phase = "loaded", !.back = r.val, !.err = r.err]
    /\ UNCHANGED <<files, wc, desk>>

AllKeys ==
    {"id", "title", "author", "genre", "created", "modified", "chapters",
     "characters", "world_building", "story_notes", "story_background",
     "plot_outline", "research_notes", "timeline", "metadata", "content", "order",
     "word_count", "name", "description", "background", "attributes",
     "image_path", "locations", "rules", "history"}

SerNext ==
    \/ \E list \in ListNames : \E given \in ItemInputs(list) : AddItem(list, given)
    \/ ToDict
    \/ \E w \in Places, f \in AllKeys : DropKey(w, f)
    \/ \E w \in Places : AddKey(w)
    \/ FromDict

SpecSerializer == SerInit /\ [][SerNext]_vars

(* C16. Round trip: for every Book built by the add_* methods,             *)
(* Book.from_dict(book.to_dict()) equals the Book field for field: ids,    *)
(* the order of each list, every created and modified timestamp.           *)
C16_RoundTrip ==
    (ser.phase = "loaded" /\ ser.drift = "none") =>
        (ser.err = NoError /\ ser.back = ser.book)

C16_Witness ==
    /\ ser.phase = "loaded"
    /\ ser.drift = "none"
    /\ ser.back = ser.book
    /\ Len(ser.book.chapters) = 1
    /\ Len(ser.book.characters) = 1
    /\ ser.book.chapters[1].created.microsecond # 0
    /\ ser.book.characters[1].created.microsecond = 0
    /\ ser.data.chapters[1].created # ser.book.chapters[1].created

(* C17. Tolerant deserialization: a dictionary with one key missing or one *)
(* unknown key added, at the top level or inside a chapter, character,     *)
(* world-building entry or note, is read without an error; the unknown key *)
(* is ignored and every key that is present is read as it is.              *)
C17_TolerantDeserialization ==
    (ser.phase = "loaded" /\ ser.drift # "none") =>
        /\ ser.err = NoError
        /\ ser.drift = "unknown" => ser.back = ser.book
        /\ (ser.drift = "missing" /\ ser.place[1] = "top") =>
               \A f \in DOMAIN ser.book \ {ser.key} : ser.back[f] = ser.book[f]

-----------------------------------------------------------------------------
(* MarkdownProcessor.get_word_count and _strip_markdown                    *)
(* (src/utils/markdown_processor.py).  Text is a sequence of code points.  *)

MaxFragments == 2

(* str.isspace(), and \s of a str pattern: the same code points.           *)
IsSpace(c) ==
    \/ c \in 9..13 \/ c \in 28..32 \/ c \in {133, 160, 5760}
    \/ c \in 8192..8202 \/ c \in {8232, 8233, 8239, 8287, 12288}

(* \d, for the ASCII digits.                                               *)
IsDigit(c) == c \in 48..57

(* c in string.punctuation                                                 *)
IsAsciiPunctuation(c) ==
    c \in 33..47 \/ c \in 58..64 \/ c \in 91..96 \/ c \in 123..126

(* unicodedata.category(c).startswith('P'), for the blocks Basic Latin,    *)
(* Latin-1, General Punctuation, CJK Symbols and Punctuation, Halfwidth    *)
(* and Fullwidth Forms; the texts of the model stay inside these blocks    *)
(* and the CJK ideographs.                                                 *)
IsUnicodePunctuation(c) ==
    \/ c \in 33..35 \/ c \in 37..42 \/ c \in 44..47 \/ c \in 58..59
    \/ c \in 63..64 \/ c \in 91..93 \/ c \in {95, 123, 125}
    \/ c \in {161, 167, 171, 182, 183, 187, 191}
    \/ c \in 8208..8231 \/ c \in 8240..8259 \/ c \in 8261..8273
    \/ c \in 8275..8286
    \/ c \in 12289..12291 \/ c \in 12296..12305 \/ c \in 12308..12319
    \/ c \in {12336, 12349}
    \/ c \in 65281..65283 \/ c \in 65285..65290 \/ c \in 65292..65295
    \/ c \in {65306, 65307, 65311, 65312, 65339, 65340, 65341, 65343, 65371, 65373}
    \/ c \in 65375..65381

CountedUnlessSpace(c) == ~IsSpace(c)

(* The loop body of get_word_count: a character is counted unless it is a  *)
(* space, ASCII punctuation or Unicode punctuation.                        *)
Counted(c) ==
    ~IsSpace(c) /\ ~IsAsciiPunctuation(c) /\ ~IsUnicodePunctuation(c)

RECURSIVE CountChars(_, _)
CountChars(t, i) ==
    IF i > Len(t) THEN 0
    ELSE (IF Counted(t[i]) THEN 1 ELSE 0) + CountChars(t, i + 1)

(* re.sub(pattern, repl, text): the text is scanned from the left; where   *)
(* the pattern matches, the replacement is written and the scan goes on    *)
(* after the match; elsewhere the character is copied.  A match is a       *)
(* record of the index after it and the replacement; end = 0 is no match.  *)
NoMatch == [end |-> 0, out |-> <<>>]

At(t, i, c) == i >= 1 /\ i <= Len(t) /\ t[i] = c

(* ^ under re.MULTILINE                                                    *)
LineStart(t, i) == i = 1 \/ At(t, i - 1, 10)

(* $ under re.MULTILINE                                                    *)
LineEnd(t, i) == i = Len(t) + 1 \/ At(t, i, 10)

InClass(cls, c) ==
    CASE cls = "space" -> IsSpace(c)
      [] cls = "digit" -> IsDigit(c)
      [] cls = "hash" -> c = 35
      [] cls = "dash" -> c = 45

(* The index after the longest run of characters of a class from i on.     *)
RECURSIVE RunEnd(_, _, _)
RunEnd(cls, t, i) ==
    IF i <= Len(t) /\ InClass(cls, t[i]) THEN RunEnd(cls, t, i + 1) ELSE i

(* The index after the longest run of characters other than d from i on.   *)
RECURSIVE UntilEnd(_, _, _)
UntilEnd(d, t, i) ==
    IF i <= Len(t) /\ t[i] # d THEN UntilEnd(d, t, i + 1) ELSE i

Repeated(t, i, d, n) == \A k \in 0..(n - 1) : At(t, i + k, d)

(* n times d, at least min characters other than d, n times d; the         *)
(* replacement is the characters in between, or nothing.                   *)
Paired(t, i, d, n, min, keep) ==
    LET j == UntilEnd(d, t, i + n)
    IN  IF Repeated(t, i, d, n) /\ j - (i + n) >= min /\ Repeated(t, j, d, n)
        THEN [end |-> j + n, out |-> IF keep THEN SubSeq(t, i + n, j - 1) ELSE <<>>]
        ELSE NoMatch

(* An opening bracket at i, at least min characters other than a closing   *)
(* bracket, a closing bracket, a parenthesis with at least one character   *)
(* other than a closing parenthesis; the replacement is the bracket text.  *)
Bracketed(t, i, min) ==
    LET j == UntilEnd(93, t, i + 1)
        k == UntilEnd(41, t, j + 2)
    IN  IF /\ At(t, i, 91) /\ j - (i + 1) >= min /\ At(t, j, 93)
           /\ At(t, j + 1, 40) /\ k > j + 2 /\ At(t, k, 41)
        THEN [end |-> k + 1, out |-> SubSeq(t, i + 1, j - 1)]
        ELSE NoMatch

(* At a line start: an optional run of spaces, then a marker the rest      *)
(* of which ends at index e > 0, then at least one space.                  *)
Marker(t, i, e) ==
    IF LineStart(t, i) /\ e > 0 /\ RunEnd("space", t, e) > e
    THEN [end |-> RunEnd("space", t, e), out |-> <<>>]
    ELSE NoMatch

(* The patterns of _strip_markdown in the order they are applied.          *)
Patterns ==
    <<"header", "bold", "italic", "bold_underscore", "italic_underscore",
      "strikethrough", "code_block", "inline_code", "link", "image",
      "blockquote", "bullet", "numbered", "rule">>

Match(pattern, t, i) ==
    CASE pattern = "header" ->
             LET e == RunEnd("hash", t, i)
             IN  Marker(t, i, IF e > i /\ e - i <= 6 THEN e ELSE 0)
      [] pattern = "bold" -> Paired(t, i, 42, 2, 1, TRUE)
      [] pattern = "italic" -> Paired(t, i, 42, 1, 1, TRUE)
      [] pattern = "bold_underscore" -> Paired(t, i, 95, 2, 1, TRUE)
      [] pattern = "italic_underscore" -> Paired(t, i, 95, 1, 1, TRUE)
      [] pattern = "strikethrough" -> Paired(t, i, 126, 2, 1, TRUE)
      [] pattern = "code_block" -> Paired(t, i, 96, 3, 0, FALSE)
      [] pattern = "inline_code" -> Paired(t, i, 96, 1, 1, TRUE)
      [] pattern = "link" -> Bracketed(t, i, 1)
      [] pattern = "image" ->
             LET m == Bracketed(t, i + 1, 0)
             IN  IF At(t, i, 33) /\ m.end > 0 THEN m ELSE NoMatch
      [] pattern = "blockquote" -> Marker(t, i, IF At(t, i, 62) THEN i + 1 ELSE 0)
      [] pattern = "bullet" ->
             LET s == RunEnd("space", t, i)
             IN  Marker(t, i, IF s <= Len(t) /\ t[s] \in {45, 42, 43} THEN s + 1 ELSE 0)
      [] pattern = "numbered" ->
             LET s == RunEnd("space", t, i)
                 d == RunEnd("digit", t, s)
             IN  Marker(t, i, IF d > s /\ At(t, d, 46) THEN d + 1 ELSE 0)
      [] pattern = "rule" ->
             LET e == RunEnd("dash", t, i)
             IN  IF LineStart(t, i) /\ e - i >= 3 /\ LineEnd(t, e)
                 THEN [end |-> e, out |-> <<>>]
                 ELSE NoMatch

RECURSIVE ReSub(_, _, _)
ReSub(pattern, t, i) ==
    IF i > Len(t) THEN <<>>
    ELSE LET m == Match(pattern, t, i)
         IN  IF m.end > 0 THEN m.out \o ReSub(pattern, t, m.end)
             ELSE <<t[i]>> \o ReSub(pattern, t, i + 1)

RECURSIVE SubAll(_, _)
SubAll(t, k) ==
    IF k > Len(Patterns) THEN t ELSE SubAll(ReSub(Patterns[k], t, 1), k + 1)

(* str.strip()                                                             *)
Strip(t) ==
    LET kept == {i \in 1..Len(t) : ~IsSpace(t[i])}
    IN  IF kept = {} THEN <<>>
        ELSE SubSeq(t, CHOOSE i \in kept : \A j \in kept : i <= j,
                       CHOOSE i \in kept : \A j \in kept : i >= j)

(* _strip_markdown(text)                                                   *)
StripMarkdown(text) == Strip(SubAll(text, 1))

(* get_word_count(text): 'words' and 'char_count' are the loop's count,    *)
(* 'characters' is len(plain_text).                                        *)
GetWordCount(text) ==
    LET plain_text == StripMarkdown(text)
        char_count == CountChars(plain_text, 1)
    IN  [words |-> char_count, characters |-> Len(plain_text),
         char_count |-> char_count]

-----------------------------------------------------------------------------
(* The word count as a state machine: text is typed fragment by fragment   *)
(* and counted.                                                            *)

(* What is typed at once: a letter, an ideograph, a digit, a space, a line *)
(* break, a comma, an ideographic full stop, "# ", bold, italic (with      *)
(* asterisks and with underscores), strikethrough, a code block, inline    *)
(* code, a link, an image, "> ", "- ", "1. ", a rule, and the single       *)
(* markers "*", "_", "#", "**".                                            *)
Fragments ==
    {<<97>>, <<20013>>, <<49>>, <<32>>, <<10>>, <<44>>, <<12290>>,
     <<35, 32>>, <<42, 42, 97, 42, 42>>, <<42, 97, 42>>,
     <<95, 95, 97, 95, 95>>, <<95, 97, 95>>, <<126, 126, 97, 126, 126>>,
     <<96, 96, 96, 97, 96, 96, 96>>, <<96, 97, 96>>,
     <<91, 97, 93, 40, 98, 41>>, <<33, 91, 97, 93, 40, 98, 41>>,
     <<62, 32>>, <<45, 32>>, <<49, 46, 32>>, <<45, 45, 45>>, <<42>>,
     <<95>>, <<35>>, <<42, 42>>}

WcInit ==
    /\ seed = 0
    /\ rng = 0
    /\ sealed = {}
    /\ encs = <<>>
    /\ disk = [p \in Paths |-> NoFile]
    /\ book = [data |-> DocEscapes, file_path |-> NoPath, is_encrypted |-> FALSE]
    /\ last = Idle
    /\ ser = Unused
    /\ DeskUnused
    /\ wc = [phase |-> "typing", text |-> <<>>, parts |-> 0, plain |-> <<>>,
             result |-> [words |-> 0, characters |-> 0, char_count |-> 0]]

(* The user types f at the end of the text.                                *)
Type(f) ==
    /\ wc.parts < MaxFragments
    /\ wc' = [wc EXCEPT !.phase = "typing", !.text = @ \o f, !.parts = @ + 1]
    /\ UNCHANGED <<files, ser, desk>>

(* processor.get_word_count(text)                                          *)
Count ==
    /\ wc.phase = "typing"
    /\ wc' = [wc EXCEPT !.phase = "counted", !.plain = StripMarkdown(wc.text),
                        !.result = GetWordCount(wc.text)]
    /\ UNCHANGED <<files, ser, desk>>

WcNext ==
    \/ \E f \in Fragments : Type(f)
    \/ Count

SpecWordCount == WcInit /\ [][WcNext]_vars

(* A letter, a digit or a CJK ideograph.                                   *)
IsWordChar(c) ==
    c \in 48..57 \/ c \in 65..90 \/ c \in 97..122 \/ c \in 19968..40959

WordChars(t) == Cardinality({i \in 1..Len(t) : IsWordChar(t[i])})

Contains(t, u) ==
    \E i \in 1..(Len(t) - Len(u) + 1) : SubSeq(t, i, i + Len(u) - 1) = u

(* Markup that takes text away with it: a code block, the target of a      *)
(* link or an image, the number of a numbered list item.                   *)
RemovesText(t) ==
    \/ Contains(t, <<96, 96, 96>>)
    \/ Contains(t, <<93, 40>>)
    \/ \E i \in 1..Len(t) : IsDigit(t[i]) /\ At(t, i + 1, 46)

-----------------------------------------------------------------------------
(* Properties of the decode order and of the password change.              *)

(* The tag of the file of the last call verifies under its password.       *)
TagVerifies ==
    /\ Len(last.file) >= 36 + TAG_SIZE
    /\ <<DeriveKey(last.pw, Slice(last.file, 8, 24)), Slice(last.file, 24, 36),
         Slice(last.file, 36, Len(last.file))>> \in sealed

(* C21. Authenticate before decompress: decrypt_book_data decompresses and *)
(* parses only after the tag has verified; when the tag does not verify it *)
(* fails with InvalidPasswordOrCorrupt, nothing decompressed or parsed,    *)
(* for a wrong password and for modified bytes alike.                      *)
C21_AuthenticateFirst ==
    (last.op = "decrypt" /\ Reached("derive_key")) =>
        /\ (Reached("decompress") \/ Reached("decode") \/ Reached("loads"))
               => TagVerifies
        /\ ~TagVerifies =>
               /\ last.err = "InvalidPasswordOrCorrupt"
               /\ last.steps = <<"derive_key", "decrypt">>
               /\ last.doc = <<>>

C21_Witness ==
    /\ last.op = "decrypt"
    /\ last.err = "InvalidPasswordOrCorrupt"
    /\ ~TagVerifies
    /\ \E e \in Entries :
           /\ e.password = last.pw
           /\ Len(e.out) = Len(last.file)
           /\ DiffPositions(e.out, last.file) = {Len(e.out)}

(* C22. Failed rotation leaves the file intact: when Book.change_password  *)
(* fails (book never saved, empty new password, wrong old password,        *)
(* malformed file), every file is byte for byte what it was before the     *)
(* call; the file changes only when the call succeeds, to the new bytes.   *)
C22_FailedRotationKeepsFile ==
    last.op = "book_change_password" =>
        /\ last.err # NoError => disk = last.before
        /\ last.err = NoError =>
               /\ disk = [last.before EXCEPT ![book.file_path] = last.out]
               /\ DecryptBookData(last.out, last.pw2).err = NoError

C22_Witness ==
    /\ last.op = "book_change_password"
    /\ last.err = "InvalidPasswordOrCorrupt"
    /\ last.pw2 # <<>>
    /\ book.file_path # NoPath
    /\ disk[book.file_path] = last.file
    /\ Slice(last.file, 0, 4) = MAGIC_NUMBER

(* C23. Rotation check order: engine.change_password rejects an empty new  *)
(* password before it decodes anything: the error is EmptyPassword and no  *)
(* step of the decode has run, also when the old password is wrong or the  *)
(* bytes are no valid container.                                           *)
C23_EmptyNewPasswordFirst ==
    (last.op = "change_password" /\ last.pw2 = <<>>) =>
        /\ last.err = "EmptyPassword"
        /\ last.steps = <<>>
        /\ rng = 2 * Len(encs)

C23_Witness ==
    /\ last.op = "change_password"
    /\ last.pw2 = <<>>
    /\ last.err = "EmptyPassword"
    /\ Len(last.file) = 31
    /\ DecryptBookData(last.file, last.pw).err = "TooSmall"

(* C30. Encryption flag matches the file: after every successful           *)
(* save_to_file or load_from_file, whatever the password argument (None,   *)
(* empty, non-empty), book.is_encrypted is true exactly when the file at   *)
(* book.file_path is in the container format.                              *)
C30_FlagMatchesFile ==
    (last.op \in {"save_to_file", "load_from_file"} /\ last.err = NoError) =>
        /\ book.file_path # NoPath
        /\ book.is_encrypted <=>
               HeaderIsEncrypted(Slice(disk[book.file_path], 0, 4))

-----------------------------------------------------------------------------
(* The chapter list: Book.add_chapter, Book.remove_chapter                 *)
(* (src/core/book.py) and the navigator's move_chapter_up and              *)
(* move_chapter_down (src/ui/navigator.py).  A chapter is its id and its   *)
(* order; the list is a sequence, index 0 of the code is position 1.       *)

MaxChapters == 3
MaxChapterIds == 4

(* `for j, ch in enumerate(chapters): ch.order = j`                        *)
Renumbered(chapters) ==
    [j \in 1..Len(chapters) |-> [chapters[j] EXCEPT !.order = j - 1]]

(* The position of the first chapter with this id, 0 when there is none.   *)
IndexOf(chapters, id) ==
    LET at == {j \in 1..Len(chapters) : chapters[j].id = id}
    IN  IF at = {} THEN 0 ELSE CHOOSE j \in at : \A k \in at : j <= k

Swapped(chapters, i, k) ==
    [j \in 1..Len(chapters) |->
        IF j = i THEN chapters[k] ELSE IF j = k THEN chapters[i] ELSE chapters[j]]

add_chapter(chapters, id) ==
    Append(chapters, [id |-> id, order |-> Len(chapters)])

remove_chapter_keeping_order(chapters, chapter_id) ==
    LET i == IndexOf(chapters, chapter_id)
    IN  IF i = 0 THEN chapters
        ELSE [j \in 1..(Len(chapters) - 1) |->
                 IF j < i THEN chapters[j] ELSE chapters[j + 1]]

(* `del chapters[i]`, then the chapters from i on take their index.        *)
remove_chapter(chapters, chapter_id) ==
    LET i == IndexOf(chapters, chapter_id)
    IN  IF i = 0 THEN chapters
        ELSE [j \in 1..(Len(chapters) - 1) |->
                 IF j < i THEN chapters[j]
                 ELSE [chapters[j + 1] EXCEPT !.order = j - 1]]

(* The loop swaps at the first chapter with the id, when it is not the     *)
(* first of the list, and stops.                                           *)
move_chapter_up(chapters, item_id) ==
    LET i == IndexOf(chapters, item_id)
    IN  IF i > 1 THEN Renumbered(Swapped(chapters, i, i - 1)) ELSE chapters

move_chapter_down(chapters, item_id) ==
    LET i == IndexOf(chapters, item_id)
    IN  IF i > 0 /\ i < Len(chapters)
        THEN Renumbered(Swapped(chapters, i, i + 1)) ELSE chapters

(* The ids a call may name: those handed out so far and one never used.    *)
ChapterIds == {Uuid4(k) : k \in 0..MaxChapterIds}

NavInit ==
    /\ seed = 0
    /\ rng = 0
    /\ sealed = {}
    /\ encs = <<>>
    /\ disk = [p \in Paths |-> NoFile]
    /\ book = [data |-> EmptyDoc, file_path |-> NoPath, is_encrypted |-> FALSE]
    /\ last = Idle
    /\ ser = Unused
    /\ wc = Unused
    /\ recent = Unused
    /\ backups = Unused
    /\ win = Unused
    /\ nav = [phase |-> "chapters", chapters |-> <<>>, uuid |-> 0,
              op |-> "Book", id |-> 0, before |-> <<>>]

NavDone(op, id, chapters) ==
    /\ nav' = [nav EXCEPT !.chapters = chapters, !.op = op, !.id = id,
                          !.before = nav.chapters]
    /\ UNCHANGED <<files, pure, recent, backups, win>>

AddChapter ==
    /\ nav.uuid < MaxChapterIds
    /\ Len(nav.chapters) < MaxChapters
    /\ nav' = [nav EXCEPT !.chapters = add_chapter(nav.chapters, Uuid4(nav.uuid)),
                          !.uuid = @ + 1, !.op = "add_chapter",
                          !.id = Uuid4(nav.uuid), !.before = nav.chapters]
    /\ UNCHANGED <<files, pure, recent, backups, win>>

RemoveChapter(id) == NavDone("remove_chapter", id, remove_chapter(nav.chapters, id))

(* The id is that of the selected tree item.                               *)
MoveChapterUp(id) ==
    NavDone("move_chapter_up", id, move_chapter_up(nav.chapters, id))

MoveChapterDown(id) ==
    NavDone("move_chapter_down", id, move_chapter_down(nav.chapters, id))

NavNext ==
    \/ AddChapter
    \/ \E id \in ChapterIds : RemoveChapter(id)
    \/ \E id \in ChapterIds : MoveChapterUp(id)
    \/ \E id \in ChapterIds : MoveChapterDown(id)

SpecChapters == NavInit /\ [][NavNext]_vars

ChapterIdsOf(chapters) == {chapters[j].id : j \in 1..Len(chapters)}

(* C24. Chapter order invariant: after any sequence of add_chapter,        *)
(* remove_chapter, move_chapter_up and move_chapter_down every chapter's   *)
(* order equals its index (0..n-1, no gap, no duplicate), and a move only  *)
(* permutes the chapters: none is added, lost or duplicated.               *)
C24_ChapterOrder ==
    nav.phase = "chapters" =>
        /\ \A j \in 1..Len(nav.chapters) : nav.chapters[j].order = j - 1
        /\ Cardinality(ChapterIdsOf(nav.chapters)) = Len(nav.chapters)
        /\ nav.op \in {"move_chapter_up", "move_chapter_down"} =>
               /\ Len(nav.chapters) = Len(nav.before)
               /\ ChapterIdsOf(nav.chapters) = ChapterIdsOf(nav.before)

C24_Witness ==
    /\ nav.phase = "chapters"
    /\ nav.op = "move_chapter_down"
    /\ Len(nav.chapters) = 3
    /\ nav.chapters # nav.before
    /\ nav.chapters[3].id = nav.id
    /\ nav.uuid = 4

-----------------------------------------------------------------------------
(* The recent-files list (src/core/file_manager.py).  recent_files.json    *)
(* holds a list of entries; an entry is its path and its last_opened time  *)
(* (the title plays no part in the list's order).  A path is a natural     *)
(* number, the clock ticks once per add_recent_file.                       *)

RECENT_FILES_KEPT == 10

MaxRecentPaths == 11
MaxRecentEdits == 2

Min(a, b) == IF a < b THEN a ELSE b

(* The entries of a list that satisfy a test on the path.                  *)
RECURSIVE Kept(_, _)
Kept(list, paths) ==
    IF list = <<>> THEN <<>>
    ELSE IF Head(list).path \in paths THEN <<Head(list)>> \o Kept(Tail(list), paths)
    ELSE Kept(Tail(list), paths)

PathsOf(list) == {list[j].path : j \in 1..Len(list)}

(* The list read from the file, without the entries whose file is gone;    *)
(* the file is rewritten with the same list.                               *)
get_recent_files(stored, exists) == Kept(stored, exists)

add_recent_file_keeping_old_entry(stored, exists, file_path, now) ==
    LET recent_files == get_recent_files(stored, exists)
        inserted == <<[path |-> file_path, last_opened |-> now]>> \o recent_files
    IN  SubSeq(inserted, 1, Min(RECENT_FILES_KEPT, Len(inserted)))

add_recent_file(stored, exists, file_path, now) ==
    LET recent_files == Kept(get_recent_files(stored, exists),
                             PathsOf(stored) \ {file_path})
        inserted == <<[path |-> file_path, last_opened |-> now]>> \o recent_files
    IN  SubSeq(inserted, 1, Min(RECENT_FILES_KEPT, Len(inserted)))

remove_recent_file(stored, exists, file_path) ==
    Kept(get_recent_files(stored, exists), PathsOf(stored) \ {file_path})

RecentInit ==
    /\ seed = 0
    /\ rng = 0
    /\ sealed = {}
    /\ encs = <<>>
    /\ disk = [p \in Paths |-> NoFile]
    /\ book = [data |-> EmptyDoc, file_path |-> NoPath, is_encrypted |-> FALSE]
    /\ last = Idle
    /\ ser = Unused
    /\ wc = Unused
    /\ nav = Unused
    /\ backups = Unused
    /\ win = Unused
    /\ recent = [phase |-> "recent", stored |-> <<>>, exists |-> {}, opened |-> 0,
                 clock |-> 0, edits |-> 0, op |-> "FileManager", path |-> 0,
                 before |-> <<>>]

RecentDone(op, path, stored) ==
    [recent EXCEPT !.stored = stored, !.op = op, !.path = path,
                   !.before = recent.stored]

(* add_recent_file after a file was opened or saved: the file exists.      *)
Added(path) ==
    [RecentDone("add_recent_file", path,
                add_recent_file(recent.stored, recent.exists \cup {path}, path,
                                recent.clock + 1))
     EXCEPT !.exists = @ \cup {path}, !.clock = @ + 1]

(* A file that was never in the list is opened or saved.                   *)
AddNewFile ==
    /\ recent.opened < MaxRecentPaths
    /\ recent' = [Added(recent.opened + 1) EXCEPT !.opened = @ + 1]
    /\ UNCHANGED <<files, pure, nav, backups, win>>

(* The paths a call names: the first, the middle and the last entry of the *)
(* list and the path that left the list first.                             *)
Picked ==
    LET n == Len(recent.stored)
        left == (1..recent.opened) \ PathsOf(recent.stored)
    IN  {recent.stored[j].path : j \in {1, (n + 1) \div 2, n} \cap 1..n}
            \cup {q \in left : \A o \in left : q <= o}

(* A file that was opened before is opened or saved again.                 *)
AddKnownFile(path) ==
    /\ recent.edits < MaxRecentEdits
    /\ path \in Picked
    /\ recent' = [Added(path) EXCEPT !.edits = @ + 1]
    /\ UNCHANGED <<files, pure, nav, backups, win>>

GetRecentFiles ==
    /\ recent.op # "get_recent_files"
    /\ recent' = RecentDone("get_recent_files", 0,
                            get_recent_files(recent.stored, recent.exists))
    /\ UNCHANGED <<files, pure, nav, backups, win>>

RemoveRecentFile(path) ==
    /\ recent.edits < MaxRecentEdits
    /\ path \in Picked \cup {MaxRecentPaths}
    /\ recent' = [RecentDone("remove_recent_file", path,
                             remove_recent_file(recent.stored, recent.exists, path))
                  EXCEPT !.edits = @ + 1]
    /\ UNCHANGED <<files, pure, nav, backups, win>>

(* Another program deletes a file of the list.                             *)
DeleteFile(path) ==
    /\ recent.edits < MaxRecentEdits
    /\ path \in recent.exists \cap Picked
    /\ recent' = [recent EXCEPT !.exists = @ \ {path}, !.edits = @ + 1,
                                !.op = "delete", !.path = path,
                                !.before = recent.stored]
    /\ UNCHANGED <<files, pure, nav, backups, win>>

RecentPaths == 1..MaxRecentPaths

RecentNext ==
    \/ AddNewFile
    \/ \E path \in RecentPaths : AddKnownFile(path)
    \/ GetRecentFiles
    \/ \E path \in RecentPaths : RemoveRecentFile(path)
    \/ \E path \in RecentPaths : DeleteFile(path)

SpecRecent == RecentInit /\ [][RecentNext]_vars

(* C25. Recent-files list: the list holds at most 10 entries and no path   *)
(* twice, the most recently added entry comes first, and adding a path     *)
(* that is in the list moves it to the front: the other entries keep       *)
(* their order.                                                            *)
C25_RecentFiles ==
    recent.phase = "recent" =>
        /\ Len(recent.stored) <= RECENT_FILES_KEPT
        /\ Cardinality(PathsOf(recent.stored)) = Len(recent.stored)
        /\ \A j \in 1..(Len(recent.stored) - 1) :
               recent.stored[j].last_opened > recent.stored[j + 1].last_opened
        /\ recent.op = "add_recent_file" =>
               /\ recent.stored[1] = [path |-> recent.path,
                                      last_opened |-> recent.clock]
               /\ LET others == Kept(recent.before,
                                     (PathsOf(recent.before) \cap recent.exists)
                                         \ {recent.path})
                  IN  Tail(recent.stored) =
                          SubSeq(others, 1, Min(RECENT_FILES_KEPT - 1, Len(others)))

C25_Witness ==
    /\ recent.phase = "recent"
    /\ recent.op = "add_recent_file"
    /\ Len(recent.stored) = RECENT_FILES_KEPT
    /\ Len(recent.before) = RECENT_FILES_KEPT
    /\ recent.path \in PathsOf(recent.before)
    /\ recent.before[1].path # recent.path
    /\ recent.opened = MaxRecentPaths

-----------------------------------------------------------------------------
(* Backups (src/core/file_manager.py).  A file name is a sequence of       *)
(* tokens; the backup of the file with base name n made at second t is     *)
(* named n \o <<"_backup_", t>> (the extension is the same for all files   *)
(* and left out).  shutil.copy2 copies the modification time of the        *)
(* source, so a backup's mtime is the time its source was last saved.      *)

BACKUPS_KEPT == 20

MaxBackups == 21
MaxOtherBackups == 2
MaxStaleBackups == 1

(* The base names of the book files, one of which does not exist.          *)
BackupFiles == {<<"a">>, <<"a", "_backup_", "old">>, <<"b">>}
MissingFile == <<"c">>

StartsWith(name, prefix) ==
    /\ Len(name) >= Len(prefix)
    /\ SubSeq(name, 1, Len(prefix)) = prefix

(* The file a backup was copied from and the second it was copied.         *)
Owner(name) == SubSeq(name, 1, Len(name) - 2)
Stamp(name) == name[Len(name)]

(* The backup files _cleanup_old_backups lists for a base name.            *)
Listed(dir, base_name) ==
    {f \in dir : StartsWith(f.name, base_name \o <<"_backup_">>)}

(* backup_files[20:] after the sort by mtime, newest first.  The sort is   *)
(* stable and os.listdir returns the files in any order, so among files    *)
(* of equal mtime any may come first: the result is each set of files      *)
(* that may be removed.                                                    *)
Removable(backup_files) ==
    LET n == Cardinality(backup_files) - BACKUPS_KEPT
        older(f) == {g \in backup_files : g.mtime < f.mtime}
        edge == {f \in backup_files :
                    /\ Cardinality(older(f)) < n
                    /\ Cardinality({g \in backup_files : g.mtime <= f.mtime}) >= n}
        below == {f \in backup_files : \E e \in edge : f.mtime < e.mtime}
    IN  IF n <= 0 THEN {{}}
        ELSE {below \cup x : x \in {y \in SUBSET edge :
                                       Cardinality(y) = n - Cardinality(below)}}

_cleanup_old_backups(dir, base_name) ==
    {dir \ gone : gone \in Removable(Listed(dir, base_name))}

(* The directory after shutil.copy2: a file of the same name is replaced.  *)
Copied(dir, name, mtime) ==
    {f \in dir : f.name # name} \cup {[name |-> name, mtime |-> mtime]}

BackupInit ==
    /\ seed = 0
    /\ rng = 0
    /\ sealed = {}
    /\ encs = <<>>
    /\ disk = [p \in Paths |-> NoFile]
    /\ book = [data |-> EmptyDoc, file_path |-> NoPath, is_encrypted |-> FALSE]
    /\ last = Idle
    /\ ser = Unused
    /\ wc = Unused
    /\ nav = Unused
    /\ recent = Unused
    /\ win = Unused
    /\ backups = [phase |-> "backups", dir |-> {}, clock |-> 0,
                  mtime |-> [f \in BackupFiles |-> 0],
                  made |-> 0, others |-> 0, stale |-> 0,
                  op |-> "FileManager", file |-> <<>>, before |-> {}]

(* create_backup(file_path) at second clock + 1; saved tells whether the   *)
(* file was saved since the last second.                                   *)
CreateBackup(file, saved) ==
    /\ file \in BackupFiles
    /\ IF file = <<"a">> THEN backups.made < MaxBackups
                         ELSE backups.others < MaxOtherBackups
    /\ saved \/ backups.stale < MaxStaleBackups
    /\ LET now == backups.clock + 1
           mtime == IF saved THEN now ELSE backups.mtime[file]
           backup_name == file \o <<"_backup_", now>>
       IN  \E dir \in _cleanup_old_backups(
                          Copied(backups.dir, backup_name, mtime), file) :
               backups' = [backups EXCEPT
                   !.dir = dir, !.clock = now, !.mtime[file] = mtime,
                   !.made = IF file = <<"a">> THEN @ + 1 ELSE @,
                   !.others = IF file = <<"a">> THEN @ ELSE @ + 1,
                   !.stale = IF saved THEN @ ELSE @ + 1,
                   !.op = "create_backup", !.file = file,
                   !.before = backups.dir]
    /\ UNCHANGED <<files, pure, nav, recent, win>>

(* create_backup of a path that does not exist returns None.               *)
CreateBackupOfMissing ==
    /\ backups.op # "create_backup_none"
    /\ backups' = [backups EXCEPT !.op = "create_backup_none",
                                  !.file = MissingFile, !.before = backups.dir]
    /\ UNCHANGED <<files, pure, nav, recent, win>>

BackupNext ==
    \/ \E file \in BackupFiles, saved \in BOOLEAN : CreateBackup(file, saved)
    \/ CreateBackupOfMissing

SpecBackups == BackupInit /\ [][BackupNext]_vars

BackupsOf(dir, file) == {f \in dir : Owner(f.name) = file}

(* C26. Backup retention: each file has at most 20 backups, the 20 most    *)
(* recently made; create_backup of one file removes only older backups of  *)
(* that file, never the backup of a file with another base name.           *)
C26_BackupRetention ==
    backups.phase = "backups" =>
        /\ \A file \in BackupFiles :
               Cardinality(BackupsOf(backups.dir, file)) <= BACKUPS_KEPT
        /\ backups.op = "create_backup" =>
               \A gone \in backups.before \ backups.dir :
                   /\ Owner(gone.name) = backups.file
                   /\ \A f \in BackupsOf(backups.dir, backups.file) :
                          Stamp(f.name) > Stamp(gone.name)

(* The part of C26 about one file alone: at most 20 backups.               *)
BackupsBounded ==
    backups.phase = "backups" =>
        \A file \in BackupFiles :
            Cardinality(BackupsOf(backups.dir, file)) <= BACKUPS_KEPT

-----------------------------------------------------------------------------
(* The main window's open books (src/ui/main_window.py).  A Book object is *)
(* a number (Python compares Book objects by identity); what the window    *)
(* needs of it is file_path and is_encrypted.  A file is the password its  *)
(* container was sealed with, None for plain JSON; the byte level of the   *)
(* container is the subject of Spec and SpecVault.  open_books is a dict: a sequence of entries in insertion    *)
(* order, at most one per key.  A dialog answer is a password, which       *)
(* PasswordDialog.accept leaves non-empty, or Cancel.                      *)

MaxBooks == 3

None == "None"
Cancel == "Cancel"
NoBook == -1
WinPaths == {"a.book"}
WinPasswords == {"p", "q"}
Answers == WinPasswords \cup {Cancel}
Absent == [password |-> "absent"]

(* f"new_book_{len(self.open_books)}" and the key of an opened file.       *)
NewBookKey(n) == <<"new_book_", n>>
PathKey(file_path) == <<file_path>>

KeyIndex(open_books, key) ==
    LET at == {i \in 1..Len(open_books) : open_books[i].key = key}
    IN  IF at = {} THEN 0 ELSE CHOOSE i \in at : TRUE

(* open_books[key] = value                                                 *)
Put(open_books, key, value) ==
    IF KeyIndex(open_books, key) = 0 THEN Append(open_books, value)
    ELSE [open_books EXCEPT ![KeyIndex(open_books, key)] = value]

(* The first entry that satisfies a test, 0 when there is none.            *)
FirstOf(at) == IF at = {} THEN 0 ELSE CHOOSE i \in at : \A j \in at : i <= j

CurrentIndex(w) ==
    FirstOf({i \in 1..Len(w.open_books) : w.open_books[i].book = w.current_book})

switch_to_book(w, book_key) ==
    LET i == KeyIndex(w.open_books, book_key)
    IN  IF i = 0 THEN w
        ELSE [w EXCEPT !.current_book = w.open_books[i].book,
                       !.current_book_password = w.open_books[i].password]

NewBookObject(file_path, is_encrypted) ==
    [file_path |-> file_path, is_encrypted |-> is_encrypted, rotated |-> None]

new_book(w) ==
    LET book_key == NewBookKey(Len(w.open_books))
    IN  switch_to_book(
            [w EXCEPT !.books[w.uuid] = NewBookObject(None, FALSE),
                      !.uuid = @ + 1,
                      !.open_books = Put(@, book_key,
                          [key |-> book_key, book |-> w.uuid,
                           password |-> None, file_path |-> None])],
            book_key)

(* The book loaded from a file becomes an entry and the current book.      *)
Opened(w, file_path, password) ==
    switch_to_book(
        [w EXCEPT !.books[w.uuid] = NewBookObject(file_path, password # None),
                  !.uuid = @ + 1,
                  !.open_books = Put(@, PathKey(file_path),
                      [key |-> PathKey(file_path), book |-> w.uuid,
                       password |-> password, file_path |-> file_path])],
        PathKey(file_path))

open_book_file(w, file_path, answer) ==
    LET open == FirstOf({i \in 1..Len(w.open_books) :
                            w.open_books[i].file_path = file_path})
    IN  IF open # 0 THEN switch_to_book(w, w.open_books[open].key)
        ELSE IF w.disk[file_path] = Absent THEN w
        ELSE IF w.disk[file_path].password \in WinPasswords
        THEN IF answer = Cancel \/ answer # w.disk[file_path].password THEN w
             ELSE Opened(w, file_path, answer)
        ELSE Opened(w, file_path, None)

(* Book.save_to_file of the current book.                                  *)
Saved(w, file_path, password, via) ==
    [w EXCEPT !.disk[file_path] = [password |-> password],
              !.books[w.current_book].file_path = file_path,
              !.books[w.current_book].is_encrypted = (password # None),
              !.wrote = [path |-> file_path, password |-> password,
                         book |-> w.current_book, via |-> via]]

_update_book_password(w, password) ==
    IF CurrentIndex(w) = 0 THEN w
    ELSE [w EXCEPT !.open_books[CurrentIndex(w)].password = password]

_update_book_file_path(w, file_path) ==
    IF CurrentIndex(w) = 0 THEN w
    ELSE [w EXCEPT !.open_books[CurrentIndex(w)].file_path = file_path]

(* file_path None: the file dialog was cancelled; choice None: the answer  *)
(* to the encryption question was No.                                      *)
save_book_as(w, file_path, choice) ==
    IF w.current_book = NoBook \/ file_path = None \/ choice = Cancel THEN w
    ELSE LET saved == Saved([w EXCEPT !.current_book_password = choice,
                                      !.books[w.current_book].rotated = None],
                            file_path, choice, "save_book_as")
         IN  _update_book_password(_update_book_file_path(saved, file_path), choice)

save_book(w, answer, file_path, choice) ==
    IF w.current_book = NoBook THEN w
    ELSE LET this == w.books[w.current_book]
         IN  IF this.file_path = None THEN save_book_as(w, file_path, choice)
             ELSE IF this.is_encrypted /\ w.current_book_password # None
             THEN Saved(w, this.file_path, w.current_book_password, "stored")
             ELSE IF this.is_encrypted
             THEN IF answer = Cancel THEN w
                  ELSE Saved(_update_book_password(
                                 [w EXCEPT !.current_book_password = answer], answer),
                             this.file_path, answer, "asked")
             ELSE Saved(w, this.file_path, None, "plain")

auto_save(w) ==
    IF w.current_book # NoBook /\ w.books[w.current_book].file_path # None
    THEN save_book(w, Cancel, None, Cancel)
    ELSE w

(* Book.change_password fails when the file is no container or the old     *)
(* password does not open it.                                              *)
change_password(w, old_password, new_password) ==
    IF w.current_book = NoBook THEN w
    ELSE LET this == w.books[w.current_book]
         IN  IF this.file_path = None \/ ~this.is_encrypted THEN w
             ELSE IF old_password = Cancel \/ new_password = Cancel THEN w
             ELSE IF w.disk[this.file_path].password # old_password
             THEN w
             ELSE [w EXCEPT !.disk[this.file_path].password = new_password,
                            !.current_book_password = new_password,
                            !.books[w.current_book].rotated = new_password]

Deleted(open_books, i) ==
    [j \in 1..(Len(open_books) - 1) |->
        IF j < i THEN open_books[j] ELSE open_books[j + 1]]

(* The entry found before the question is the one deleted.                 *)
Closed(w, i) ==
    LET left == [w EXCEPT !.open_books = Deleted(@, i),
                          !.books[w.open_books[i].book] = NewBookObject(None, FALSE)]
    IN  IF left.open_books # <<>>
        THEN switch_to_book(left, left.open_books[1].key)
        ELSE [left EXCEPT !.current_book = NoBook, !.current_book_password = None]

close_current_book(w, reply, answer, file_path, choice) ==
    IF w.current_book = NoBook \/ CurrentIndex(w) = 0 THEN w
    ELSE IF reply = Cancel THEN w
    ELSE IF reply = "Save"
    THEN LET saved == save_book(w, answer, file_path, choice)
         IN  IF saved.books[w.current_book].file_path = None THEN saved
             ELSE Closed(saved, CurrentIndex(w))
    ELSE Closed(w, CurrentIndex(w))

NoWrite == [path |-> None, password |-> None, book |-> NoBook, via |-> None]

(* The window after construction; a.book was written in an earlier run.    *)
WinInit ==
    /\ seed = 0
    /\ rng = 0
    /\ sealed = {}
    /\ encs = <<>>
    /\ disk = [p \in Paths |-> NoFile]
    /\ book = [data |-> EmptyDoc, file_path |-> NoPath, is_encrypted |-> FALSE]
    /\ last = Idle
    /\ ser = Unused
    /\ wc = Unused
    /\ nav = Unused
    /\ recent = Unused
    /\ backups = Unused
    /\ win = [phase |-> "window", open_books |-> <<>>, current_book |-> NoBook,
              current_book_password |-> None,
              books |-> [b \in 0..(MaxBooks - 1) |-> NewBookObject(None, FALSE)],
              uuid |-> 0,
              disk |-> [f \in WinPaths |->
                           IF f = "a.book" THEN [password |-> "p"]
                           ELSE Absent],
              op |-> "MainWindow", before |-> <<>>, wrote |-> NoWrite]

(* A handler ran: what it wrote and, for new_book, the dict before it.     *)
Handled(op, w) ==
    /\ win' = [w EXCEPT !.op = op,
                         !.before = IF op = "new_book" THEN win.open_books ELSE <<>>]
    /\ UNCHANGED <<files, pure, nav, recent, backups>>

Begin == [win EXCEPT !.wrote = NoWrite]

WinNewBook ==
    /\ win.uuid < MaxBooks
    /\ Handled("new_book", new_book(Begin))

WinOpenBookFile(file_path, answer) ==
    /\ win.uuid < MaxBooks
    /\ Handled("open_book_file", open_book_file(Begin, file_path, answer))

(* The file dialog and the encryption question come up only for a book    *)
(* that has no file yet.                                                   *)
Asked(file_path, choice) ==
    win.books[win.current_book].file_path # None =>
        (file_path = None /\ choice = Cancel)

WinSaveBook(answer, file_path, choice) ==
    /\ win.current_book # NoBook
    /\ Asked(file_path, choice)
    /\ Handled("save_book", save_book(Begin, answer, file_path, choice))

WinSaveBookAs(file_path, choice) ==
    /\ win.current_book # NoBook
    /\ Handled("save_book_as", save_book_as(Begin, file_path, choice))

WinAutoSave ==
    /\ win.current_book # NoBook
    /\ win.op # "auto_save"
    /\ Handled("auto_save", auto_save(Begin))

WinChangePassword(old_password, new_password) ==
    /\ win.current_book # NoBook
    /\ Handled("change_password", change_password(Begin, old_password, new_password))

(* A book is picked in the Books menu.                                     *)
WinSwitchToBook(i) ==
    /\ i \in 1..Len(win.open_books)
    /\ Handled("switch_to_book", switch_to_book(Begin, win.open_books[i].key))

WinCloseCurrentBook(reply, file_path, choice) ==
    /\ win.current_book # NoBook
    /\ Asked(file_path, choice)
    /\ reply # "Save" => (file_path = None /\ choice = Cancel)
    /\ Handled("close_current_book",
               close_current_book(Begin, reply, Cancel, file_path, choice))

WinNext ==
    \/ WinNewBook
    \/ \E file_path \in WinPaths, answer \in Answers :
           WinOpenBookFile(file_path, answer)
    \/ \E file_path \in WinPaths \cup {None}, choice \in Answers \cup {None} :
           WinSaveBook(Cancel, file_path, choice)
    \/ \E file_path \in WinPaths \cup {None}, choice \in Answers \cup {None} :
           WinSaveBookAs(file_path, choice)
    \/ WinAutoSave
    \/ \E old_password \in Answers, new_password \in Answers :
           WinChangePassword(old_password, new_password)
    \/ \E i \in 1..MaxBooks : WinSwitchToBook(i)
    \/ \E reply \in {"Save", "Discard", Cancel},
          file_path \in WinPaths \cup {None}, choice \in Answers \cup {None} :
           WinCloseCurrentBook(reply, file_path, choice)

SpecWindow == WinInit /\ [][WinNext]_vars

(* C27. Password stays current: after change_password succeeded in the    *)
(* main window, every later save of that book made with the stored         *)
(* password (manual, auto-save, after switching to another book and back)  *)
(* seals the file with the new password.                                   *)
C27_PasswordStaysCurrent ==
    (win.phase = "window" /\ win.wrote.via = "stored") =>
        (win.books[win.wrote.book].rotated # None =>
             win.wrote.password = win.books[win.wrote.book].rotated)

(* C28. New books never displace open books: new_book adds exactly one     *)
(* entry to open_books and every entry that was there before is still     *)
(* there, unchanged.                                                       *)
C28_NewBookAddsEntry ==
    (win.phase = "window" /\ win.op = "new_book") =>
        /\ Len(win.open_books) = Len(win.before) + 1
        /\ \A i \in 1..Len(win.before) :
               \E j \in 1..Len(win.open_books) : win.open_books[j] = win.before[i]

(* C29. One open book per path: no two entries of open_books are bound to  *)
(* the same file path, after new_book, open_book_file, save_book_as and    *)
(* close_current_book alike.                                               *)
C29_OneBookPerPath ==
    win.phase = "window" =>
        \A i \in 1..Len(win.open_books), j \in 1..Len(win.open_books) :
            (i # j /\ win.open_books[i].file_path # None) =>
                win.open_books[i].file_path # win.open_books[j].file_path

====
